---- MODULE Spec2Model ----
(***************************************************************************)
(* Model of app/src/extrinsic.rs: building and signing an extrinsic        *)
(* (build_signed_extrinsic) and decoding chain events                      *)
(* (parse_agent_registered_event, parse_agent_call_queued_event).          *)
(*                                                                         *)
(* Representation.  TLC's integers are 32 bits wide, the program's are     *)
(* u32, u64, u128 and usize.  An unsigned integer is therefore modelled as *)
(* the sequence of its little-endian base-256 digits without high zero     *)
(* digits (a Num; zero is <<>>).  A Vec<u8> is modelled run-length         *)
(* encoded: a sequence of runs [b, n] (n > 0 copies of byte b, n a Num) in *)
(* which neighbouring runs hold different bytes, so that equal byte        *)
(* strings have equal representations and a Vec of 2^32 bytes is a value   *)
(* TLC can hold.                                                           *)
(***************************************************************************)
EXTENDS Integers, Sequences, FiniteSets, TLC

Byte == 0 .. 255

(***************************************************************************)
(* Unsigned integers (Num)                                                 *)
(***************************************************************************)
RECURSIVE NumNorm(_)
NumNorm(n) ==
    IF n = <<>> THEN <<>>
    ELSE IF n[Len(n)] = 0 THEN NumNorm(SubSeq(n, 1, Len(n) - 1))
    ELSE n

RECURSIVE NumFromInt(_)
NumFromInt(i) ==
    IF i = 0 THEN <<>> ELSE <<i % 256>> \o NumFromInt(i \div 256)

NumDigit(n, i) == IF i >= 1 /\ i <= Len(n) THEN n[i] ELSE 0

RECURSIVE NumAddFrom(_, _, _, _)
NumAddFrom(a, b, i, carry) ==
    IF i > Len(a) /\ i > Len(b)
    THEN (IF carry = 0 THEN <<>> ELSE <<carry>>)
    ELSE LET s == NumDigit(a, i) + NumDigit(b, i) + carry
         IN  <<s % 256>> \o NumAddFrom(a, b, i + 1, s \div 256)

NumAdd(a, b) == NumAddFrom(a, b, 1, 0)

RECURSIVE NumSubFrom(_, _, _, _)
NumSubFrom(a, b, i, borrow) ==
    IF i > Len(a) THEN <<>>
    ELSE LET d == NumDigit(a, i) - NumDigit(b, i) - borrow
         IN  IF d < 0
             THEN <<d + 256>> \o NumSubFrom(a, b, i + 1, 1)
             ELSE <<d>> \o NumSubFrom(a, b, i + 1, 0)

RECURSIVE NumLessFrom(_, _, _)
NumLessFrom(a, b, i) ==
    IF i = 0 THEN FALSE
    ELSE IF a[i] # b[i] THEN a[i] < b[i]
    ELSE NumLessFrom(a, b, i - 1)

NumLess(a, b) ==
    IF Len(a) # Len(b) THEN Len(a) < Len(b) ELSE NumLessFrom(a, b, Len(a))

NumLeq(a, b) == a = b \/ NumLess(a, b)

\* a - b for b <= a
NumSub(a, b) == NumNorm(NumSubFrom(a, b, 1, 0))

\* the w low digits of n, padded with zero digits: the w-byte little-endian
\* image of n mod 256^w
NumBytes(n, w) == [i \in 1 .. w |-> NumDigit(n, i)]

\* n << 2 and n >> 2
NumShl2(n) ==
    NumNorm([i \in 1 .. Len(n) + 1 |->
                ((NumDigit(n, i) * 4) % 256) + (NumDigit(n, i - 1) \div 64)])

NumShr2(n) ==
    NumNorm([i \in 1 .. Len(n) |->
                (NumDigit(n, i) \div 4) + ((NumDigit(n, i + 1) % 4) * 64)])

\* `x as u32`: the value modulo 2^32
AsU32(n) == NumNorm(NumBytes(n, 4))

(***************************************************************************)
(* Vec<u8> (Bytes)                                                         *)
(***************************************************************************)
Run(b, n) == [b |-> b, n |-> n]

\* Vec::new()
VecNew == <<>>

RECURSIVE VecLen(_)
\* Vec::len
VecLen(v) == IF v = <<>> THEN <<>> ELSE NumAdd(v[1].n, VecLen(Tail(v)))

\* Vec::extend_from_slice
ExtendFromSlice(v, s) ==
    IF s = <<>> THEN v
    ELSE IF v = <<>> THEN s
    ELSE IF v[Len(v)].b = s[1].b
    THEN SubSeq(v, 1, Len(v) - 1)
            \o <<Run(s[1].b, NumAdd(v[Len(v)].n, s[1].n))>> \o Tail(s)
    ELSE v \o s

\* Vec::push
Push(v, byte) == ExtendFromSlice(v, <<Run(byte, <<1>>)>>)

RECURSIVE Slice(_)
\* the Vec holding the bytes of a plain sequence of bytes
Slice(seq) ==
    IF seq = <<>> THEN <<>>
    ELSE Push(Slice(SubSeq(seq, 1, Len(seq) - 1)), seq[Len(seq)])

\* n copies of byte b
Fill(b, n) == IF n = <<>> THEN <<>> ELSE <<Run(b, n)>>

RECURSIVE Drop(_, _)
\* v[k..] for k <= v.len()
Drop(v, k) ==
    IF k = <<>> \/ v = <<>> THEN v
    ELSE IF NumLess(k, v[1].n)
    THEN <<Run(v[1].b, NumSub(v[1].n, k))>> \o Tail(v)
    ELSE Drop(Tail(v), NumSub(k, v[1].n))

RECURSIVE Take(_, _)
\* v[..k] for k <= v.len()
Take(v, k) ==
    IF k = <<>> \/ v = <<>> THEN <<>>
    ELSE IF NumLeq(k, v[1].n) THEN <<Run(v[1].b, k)>>
    ELSE <<v[1]>> \o Take(Tail(v), NumSub(k, v[1].n))

RECURSIVE Prefix(_, _)
\* the first k bytes of v (fewer when v is shorter), as a plain sequence
Prefix(v, k) ==
    IF k = 0 \/ v = <<>> THEN <<>>
    ELSE <<v[1].b>> \o Prefix(Drop(v, <<1>>), k - 1)

(***************************************************************************)
(* SCALE encoders of the codec crate, as build_signed_extrinsic calls them *)
(***************************************************************************)
\* 2^6, 2^14 and 2^30 as Nums
Pow6 == NumFromInt(64)
Pow14 == NumFromInt(16384)
Pow30 == NumFromInt(1073741824)

\* u32::encode_to: four little-endian bytes
U32EncodeTo(x, dest) == ExtendFromSlice(dest, Slice(NumBytes(x, 4)))

\* Compact<u32>::encode_to
CompactU32EncodeTo(x, dest) ==
    IF NumLess(x, Pow6) THEN Push(dest, NumDigit(x, 1) * 4)
    ELSE IF NumLess(x, Pow14)
    THEN ExtendFromSlice(dest,
            Slice(NumBytes(NumAdd(NumShl2(x), <<1>>), 2)))
    ELSE IF NumLess(x, Pow30)
    THEN ExtendFromSlice(dest,
            Slice(NumBytes(NumAdd(NumShl2(x), <<2>>), 4)))
    ELSE ExtendFromSlice(Push(dest, 3), Slice(NumBytes(x, 4)))

\* Compact<u64>::encode_to and Compact<u128>::encode_to: they differ in the
\* width leading_zeros() is counted in, and bytes_needed comes out the same,
\* the number of significant bytes of x
CompactBigEncodeTo(x, dest) ==
    IF NumLess(x, Pow6) THEN Push(dest, NumDigit(x, 1) * 4)
    ELSE IF NumLess(x, Pow14)
    THEN ExtendFromSlice(dest,
            Slice(NumBytes(NumAdd(NumShl2(x), <<1>>), 2)))
    ELSE IF NumLess(x, Pow30)
    THEN ExtendFromSlice(dest,
            Slice(NumBytes(NumAdd(NumShl2(x), <<2>>), 4)))
    ELSE LET bytes_needed == Len(x)
         IN  ExtendFromSlice(Push(dest, 3 + ((bytes_needed - 4) * 4)),
                             Slice(NumBytes(x, bytes_needed)))

CompactU64EncodeTo(x, dest) == CompactBigEncodeTo(x, dest)

CompactU128EncodeTo(x, dest) == CompactBigEncodeTo(x, dest)

(***************************************************************************)
(* build_signed_extrinsic                                                  *)
(***************************************************************************)
\* the payload length above which the payload is hashed before signing
HashThreshold == 256

\* sp_core::hashing::blake2_256: the 32-byte digest of the bytes, kept as a
\* term (the digest of different bytes is a different term)
Blake2_256(bytes) == [kind |-> "blake2_256", of |-> bytes]

\* the bytes themselves, handed to the signer as they are
Raw(bytes) == [kind |-> "raw", of |-> bytes]

\* mutant: the transaction version is written before the spec version
SigningPayload_TxBeforeSpec(call, n, genesis, spec_v, tx_v) ==
    LET p1 == ExtendFromSlice(VecNew, call)
        p2 == Push(p1, 0)
        p3 == CompactU64EncodeTo(n, p2)
        p4 == CompactU128EncodeTo(<<>>, p3)
        p5 == Push(p4, 0)
        p6 == U32EncodeTo(tx_v, p5)
        p7 == U32EncodeTo(spec_v, p6)
        p8 == ExtendFromSlice(p7, genesis)
        p9 == ExtendFromSlice(p8, genesis)
    IN  Push(p9, 0)

\* mutant: nonce.encode_to instead of Compact(nonce).encode_to
SigningPayload_PlainNonce(call, n, genesis, spec_v, tx_v) ==
    LET p1 == ExtendFromSlice(VecNew, call)
        p2 == Push(p1, 0)
        p3 == ExtendFromSlice(p2, Slice(NumBytes(n, 8)))
        p4 == CompactU128EncodeTo(<<>>, p3)
        p5 == Push(p4, 0)
        p6 == U32EncodeTo(spec_v, p5)
        p7 == U32EncodeTo(tx_v, p6)
        p8 == ExtendFromSlice(p7, genesis)
        p9 == ExtendFromSlice(p8, genesis)
    IN  Push(p9, 0)

\* the signing payload: call, explicit extensions, implicit extensions
SigningPayload(call, n, genesis, spec_v, tx_v) ==
    LET p1 == ExtendFromSlice(VecNew, call)
        p2 == Push(p1, 0)                         \* CheckEra: immortal
        p3 == CompactU64EncodeTo(n, p2)           \* CheckNonce
        p4 == CompactU128EncodeTo(<<>>, p3)       \* ChargeTransactionPayment
        p5 == Push(p4, 0)                         \* CheckMetadataHash mode
        p6 == U32EncodeTo(spec_v, p5)             \* CheckSpecVersion
        p7 == U32EncodeTo(tx_v, p6)               \* CheckTxVersion
        p8 == ExtendFromSlice(p7, genesis)        \* CheckGenesis
        p9 == ExtendFromSlice(p8, genesis)        \* CheckEra
    IN  Push(p9, 0)                               \* CheckMetadataHash

\* mutant: payload.len() >= 256
SignedMessage_FromThreshold(p) ==
    IF NumLeq(NumFromInt(HashThreshold), VecLen(p))
    THEN Blake2_256(p)
    ELSE Raw(p)

\* what keypair.sign is called on
SignedMessage(p) ==
    IF NumLess(NumFromInt(HashThreshold), VecLen(p))
    THEN Blake2_256(p)
    ELSE Raw(p)

\* mutant: the CheckMetadataHash mode byte is left out of the extrinsic
Extrinsic_NoMetadataMode(public_key, sig, n, call) ==
    LET e1 == Push(VecNew, 132)
        e2 == Push(e1, 0)
        e3 == ExtendFromSlice(e2, public_key)
        e4 == Push(e3, 1)
        e5 == ExtendFromSlice(e4, sig)
        e6 == Push(e5, 0)
        e7 == CompactU64EncodeTo(n, e6)
        e8 == CompactU128EncodeTo(<<>>, e7)
    IN  ExtendFromSlice(e8, call)

\* mutant: Compact(nonce as u32)
Extrinsic_NonceAsU32(public_key, sig, n, call) ==
    LET e1 == Push(VecNew, 132)
        e2 == Push(e1, 0)
        e3 == ExtendFromSlice(e2, public_key)
        e4 == Push(e3, 1)
        e5 == ExtendFromSlice(e4, sig)
        e6 == Push(e5, 0)
        e7 == CompactU32EncodeTo(AsU32(n), e6)
        e8 == CompactU128EncodeTo(<<>>, e7)
        e9 == Push(e8, 0)
    IN  ExtendFromSlice(e9, call)

\* mutant: the signature is written where the public key belongs
Extrinsic_SignatureFirst(public_key, sig, n, call) ==
    LET e1 == Push(VecNew, 132)
        e2 == Push(e1, 0)
        e3 == ExtendFromSlice(e2, sig)
        e4 == Push(e3, 1)
        e5 == ExtendFromSlice(e4, public_key)
        e6 == Push(e5, 0)
        e7 == CompactU64EncodeTo(n, e6)
        e8 == CompactU128EncodeTo(<<>>, e7)
        e9 == Push(e8, 0)
    IN  ExtendFromSlice(e9, call)

\* mutant: the version byte of an unsigned extrinsic (0x04)
Extrinsic_UnsignedVersion(public_key, sig, n, call) ==
    LET e1 == Push(VecNew, 4)
        e2 == Push(e1, 0)
        e3 == ExtendFromSlice(e2, public_key)
        e4 == Push(e3, 1)
        e5 == ExtendFromSlice(e4, sig)
        e6 == Push(e5, 0)
        e7 == CompactU64EncodeTo(n, e6)
        e8 == CompactU128EncodeTo(<<>>, e7)
        e9 == Push(e8, 0)
    IN  ExtendFromSlice(e9, call)

\* the extrinsic before its length prefix
Extrinsic(public_key, sig, n, call) ==
    LET e1 == Push(VecNew, 132)                   \* 0x84
        e2 == Push(e1, 0)                         \* MultiAddress::Id
        e3 == ExtendFromSlice(e2, public_key)
        e4 == Push(e3, 1)                         \* MultiSignature::Sr25519
        e5 == ExtendFromSlice(e4, sig)
        e6 == Push(e5, 0)                         \* CheckEra
        e7 == CompactU64EncodeTo(n, e6)           \* CheckNonce
        e8 == CompactU128EncodeTo(<<>>, e7)       \* ChargeTransactionPayment
        e9 == Push(e8, 0)                         \* CheckMetadataHash mode
    IN  ExtendFromSlice(e9, call)

\* the length-prefixed extrinsic
FinalExtrinsic(ext) ==
    ExtendFromSlice(CompactU32EncodeTo(AsU32(VecLen(ext)), VecNew), ext)

HexDigits ==
    <<"0", "1", "2", "3", "4", "5", "6", "7",
      "8", "9", "a", "b", "c", "d", "e", "f">>

\* hex::encode: two lowercase digits a byte.  The text is kept run by run,
\* as the bytes are: n copies of the digit pair hi lo
HexEncode(bytes) ==
    [i \in 1 .. Len(bytes) |->
        [hi |-> HexDigits[(bytes[i].b \div 16) + 1],
         lo |-> HexDigits[(bytes[i].b % 16) + 1],
         n  |-> bytes[i].n]]

\* format!("0x{}", hex::encode(..))
HexString(bytes) == [prefix |-> "0x", digits |-> HexEncode(bytes)]

(***************************************************************************)
(* The inputs build_signed_extrinsic is run on                             *)
(***************************************************************************)
MaxDelta == 4

Deltas == {NumFromInt(d) : d \in 0 .. MaxDelta}

\* call-data lengths: from each base, MaxDelta + 1 consecutive lengths.  The
\* bases lie just below the lengths at which the payload passes 256 bytes and
\* the extrinsic passes 2^14, 2^30 and 2^32 bytes
LenBases ==
    { <<>>, NumFromInt(177), NumFromInt(16279), NumFromInt(1073741719),
      <<151, 255, 255, 255>> }

CallHeads == { <<>>, <<0, 1, 2>> }

CallDatas ==
    { ExtendFromSlice(Slice(h), Fill(7, NumAdd(base, d))) :
        h \in CallHeads, base \in LenBases, d \in Deltas }

Nonces ==
    { <<>>, NumFromInt(63), NumFromInt(64), NumFromInt(16383),
      NumFromInt(16384), NumFromInt(1073741823), NumFromInt(1073741824),
      <<255, 255, 255, 255, 255, 255, 255, 255>> }

GenesisHashes == { Fill(0, <<32>>), Fill(171, <<32>>) }

SpecVersions == { <<1>>, <<4, 3, 2, 1>> }

TxVersions == { <<1>>, <<255, 255, 255, 255>> }

\* the public keys of the keypairs
PublicKeys ==
    { Fill(212, <<32>>), ExtendFromSlice(Slice(<<0, 1>>), Fill(9, <<30>>)) }

\* the signatures keypair.sign may return (sr25519 signing is randomised)
Signatures ==
    { Fill(1, <<64>>), ExtendFromSlice(Slice(<<90, 0>>), Fill(165, <<62>>)) }

(***************************************************************************)
(* parse_agent_registered_event and parse_agent_call_queued_event          *)
(***************************************************************************)
Some(x) == [kind |-> "Some", value |-> x]

None == [kind |-> "None"]

HexUpper ==
    <<"0", "1", "2", "3", "4", "5", "6", "7",
      "8", "9", "A", "B", "C", "D", "E", "F">>

IsHexChar(c) == \E d \in 1 .. 16 : HexDigits[d] = c \/ HexUpper[d] = c

HexVal(c) == (CHOOSE d \in 1 .. 16 : HexDigits[d] = c \/ HexUpper[d] = c) - 1

\* hex::decode of a text (a sequence of characters): an error for a text of
\* odd length or with a character that is no hex digit of either case
HexDecode(text) ==
    IF Len(text) % 2 # 0 \/ \E i \in 1 .. Len(text) : ~IsHexChar(text[i])
    THEN [kind |-> "Err"]
    ELSE [kind |-> "Ok",
          value |-> [i \in 1 .. Len(text) \div 2 |->
                        16 * HexVal(text[2 * i - 1]) + HexVal(text[2 * i])]]

\* Public::from_raw(account).to_ss58check(): the address text of the account
\* id under the default address format (42), kept as a term
Ss58Check(account) == [ss58 |-> account, format |-> "substrate"]

\* mutant: u64::from_be_bytes
U64FromBeBytes(bytes) == NumNorm([i \in 1 .. Len(bytes) |-> bytes[Len(bytes) + 1 - i]])

\* u64::from_le_bytes
U64FromLeBytes(bytes) == NumNorm(bytes)

\* event.data.get("bytes").and_then(|v| v.as_str())
BytesStr(data) ==
    IF data.kind = "str" THEN Some(data.text) ELSE None

RECURSIVE parse_agent_registered_event_LastMatch(_)
\* mutant: the last event that decodes wins
parse_agent_registered_event_LastMatch(evs) ==
    IF evs = <<>> THEN None
    ELSE LET later == parse_agent_registered_event_LastMatch(Tail(evs))
             event == Head(evs)
             bytes_hex == BytesStr(event.data)
         IN  IF later # None THEN later
             ELSE IF /\ event.pallet = "Agents"
                     /\ event.variant = "AgentRegistered"
                     /\ bytes_hex.kind = "Some"
             THEN LET bytes == HexDecode(bytes_hex.value)
                  IN  IF bytes.kind = "Ok" /\ Len(bytes.value) >= 32
                      THEN Some(Ss58Check(SubSeq(bytes.value, 1, 32)))
                      ELSE None
             ELSE None

RECURSIVE parse_agent_registered_event_AnyPallet(_)
\* mutant: the pallet is not compared
parse_agent_registered_event_AnyPallet(evs) ==
    IF evs = <<>> THEN None
    ELSE LET event == Head(evs)
             bytes_hex == BytesStr(event.data)
         IN  IF /\ event.variant = "AgentRegistered"
                /\ bytes_hex.kind = "Some"
             THEN LET bytes == HexDecode(bytes_hex.value)
                  IN  IF bytes.kind = "Err" THEN None
                      ELSE IF Len(bytes.value) >= 32
                      THEN Some(Ss58Check(SubSeq(bytes.value, 1, 32)))
                      ELSE parse_agent_registered_event_AnyPallet(Tail(evs))
             ELSE parse_agent_registered_event_AnyPallet(Tail(evs))

RECURSIVE parse_agent_registered_event(_)
parse_agent_registered_event(evs) ==
    IF evs = <<>> THEN None
    ELSE LET event == Head(evs)
             bytes_hex == BytesStr(event.data)
         IN  IF /\ event.pallet = "Agents"
                /\ event.variant = "AgentRegistered"
                /\ bytes_hex.kind = "Some"
             THEN LET bytes == HexDecode(bytes_hex.value)
                  IN  IF bytes.kind = "Err" THEN None
                      ELSE IF Len(bytes.value) >= 32
                      THEN Some(Ss58Check(SubSeq(bytes.value, 1, 32)))
                      ELSE parse_agent_registered_event(Tail(evs))
             ELSE parse_agent_registered_event(Tail(evs))

RECURSIVE parse_agent_call_queued_event(_)
parse_agent_call_queued_event(evs) ==
    IF evs = <<>> THEN None
    ELSE LET event == Head(evs)
             bytes_hex == BytesStr(event.data)
         IN  IF /\ event.pallet = "Agents"
                /\ event.variant = "AgentCallQueued"
                /\ bytes_hex.kind = "Some"
             THEN LET bytes == HexDecode(bytes_hex.value)
                  IN  IF bytes.kind = "Err" THEN None
                      ELSE IF Len(bytes.value) >= 8
                      THEN Some(U64FromLeBytes(SubSeq(bytes.value, 1, 8)))
                      ELSE parse_agent_call_queued_event(Tail(evs))
             ELSE parse_agent_call_queued_event(Tail(evs))

(***************************************************************************)
(* The event lists the decoders are run on                                 *)
(***************************************************************************)
MaxEvents == 3

\* the lowercase hex text of a sequence of bytes
HexText(bytes) ==
    [i \in 1 .. 2 * Len(bytes) |->
        IF i % 2 = 1 THEN HexDigits[(bytes[(i + 1) \div 2] \div 16) + 1]
        ELSE HexDigits[(bytes[i \div 2] % 16) + 1]]

Str(text) == [kind |-> "str", text |-> text]

\* data without a "bytes" field, and with one that is no string
NoBytes == [kind |-> "absent"]

NotAString == [kind |-> "number"]

Event(p, v, d) == [pallet |-> p, variant |-> v, data |-> d]

Account1 == [i \in 1 .. 32 |-> i]

Account2 == [i \in 1 .. 40 |-> 200 + i]

RunId1 == <<1, 2, 3, 4, 5, 6, 7, 8>>

RunId2 == <<57, 48, 0, 0, 0, 0, 0, 0>>

Events ==
    { Event("Agents", "AgentRegistered", Str(HexText(Account1))),
      Event("Agents", "AgentRegistered", Str(HexText(Account2))),
      Event("Agents", "AgentRegistered", Str(HexText(SubSeq(Account1, 1, 31)))),
      Event("Agents", "AgentRegistered", Str(<<"0", "x">> \o HexText(Account1))),
      Event("Agents", "AgentRegistered", NoBytes),
      Event("Agents", "AgentRegistered", NotAString),
      Event("Agents", "AgentCallQueued", Str(HexText(RunId1))),
      Event("Agents", "AgentCallQueued", Str(HexText(RunId1 \o <<9, 10>>))),
      Event("Agents", "AgentCallQueued", Str(HexText(RunId2))),
      Event("Agents", "AgentCallQueued", Str(HexText(SubSeq(RunId1, 1, 7)))),
      Event("Agents", "AgentCallQueued", Str(Tail(HexText(RunId2)))),
      Event("System", "AgentRegistered", Str(HexText(Account2))),
      Event("System", "AgentCallQueued", Str(HexText(RunId2))),
      Event("Agents", "AgentRunCompleted", Str(HexText(Account1))),
      Event("agents", "agentregistered", Str(HexText(Account2))) }

RECURSIVE EventLists(_)
EventLists(n) ==
    IF n = 0 THEN { <<>> }
    ELSE EventLists(n - 1)
            \cup { <<e>> \o l : e \in Events,
                               l \in { x \in EventLists(n - 1) : Len(x) = n - 1 } }

(***************************************************************************)
(* auth.rs: try_parse_token_from_query.  A text is a sequence of           *)
(* characters, one for each byte                                           *)
(***************************************************************************)
\* the characters by their byte: the printable ASCII characters stand for
\* themselves, every other byte has a name
Chars ==
    <<"x00", "x01", "x02", "x03", "x04", "x05", "x06", "x07", "x08", "x09",
      "LF", "x0b", "x0c", "CR", "x0e", "x0f", "x10", "x11", "x12", "x13",
      "x14", "x15", "x16", "x17", "x18", "x19", "x1a", "x1b", "x1c", "x1d",
      "x1e", "x1f", " ", "!", "DQUOTE", "#", "$", "%", "&", "'", "(", ")",
      "*", "+", ",", "-", ".", "/", "0", "1", "2", "3", "4", "5", "6", "7",
      "8", "9", ":", ";", "<", "=", ">", "?", "@", "A", "B", "C", "D", "E",
      "F", "G", "H", "I", "J", "K", "L", "M", "N", "O", "P", "Q", "R", "S",
      "T", "U", "V", "W", "X", "Y", "Z", "[", "BACKSLASH", "]", "^", "_",
      "BACKTICK", "a", "b", "c", "d", "e", "f", "g", "h", "i", "j", "k",
      "l", "m", "n", "o", "p", "q", "r", "s", "t", "u", "v", "w", "x", "y",
      "z", "{", "|", "}", "~", "x7f", "x80", "x81", "x82", "x83", "x84",
      "x85", "x86", "x87", "x88", "x89", "x8a", "x8b", "x8c", "x8d", "x8e",
      "x8f", "x90", "x91", "x92", "x93", "x94", "x95", "x96", "x97", "x98",
      "x99", "x9a", "x9b", "x9c", "x9d", "x9e", "x9f", "xa0", "xa1", "xa2",
      "xa3", "xa4", "xa5", "xa6", "xa7", "xa8", "xa9", "xaa", "xab", "xac",
      "xad", "xae", "xaf", "xb0", "xb1", "xb2", "xb3", "xb4", "xb5", "xb6",
      "xb7", "xb8", "xb9", "xba", "xbb", "xbc", "xbd", "xbe", "xbf", "xc0",
      "xc1", "xc2", "xc3", "xc4", "xc5", "xc6", "xc7", "xc8", "xc9", "xca",
      "xcb", "xcc", "xcd", "xce", "xcf", "xd0", "xd1", "xd2", "xd3", "xd4",
      "xd5", "xd6", "xd7", "xd8", "xd9", "xda", "xdb", "xdc", "xdd", "xde",
      "xdf", "xe0", "xe1", "xe2", "xe3", "xe4", "xe5", "xe6", "xe7", "xe8",
      "xe9", "xea", "xeb", "xec", "xed", "xee", "xef", "xf0", "xf1", "xf2",
      "xf3", "xf4", "xf5", "xf6", "xf7", "xf8", "xf9", "xfa", "xfb", "xfc",
      "xfd", "xfe", "xff">>

CharOf(byte) == Chars[byte + 1]

ByteOf(c) == CHOOSE byte \in 0 .. 255 : Chars[byte + 1] = c

\* str::starts_with at index i (from 1)
StartsAt(s, pat, i) ==
    /\ i + Len(pat) - 1 <= Len(s)
    /\ SubSeq(s, i, i + Len(pat) - 1) = pat

\* str::contains
Contains(s, pat) == \E i \in 1 .. Len(s) + 1 : StartsAt(s, pat, i)

\* str::find and str::rfind: the index (from 1) of the first and of the last
\* occurrence, 0 for None
Find(s, pat) ==
    IF Contains(s, pat)
    THEN CHOOSE i \in 1 .. Len(s) + 1 :
            /\ StartsAt(s, pat, i)
            /\ \A j \in 1 .. i - 1 : ~StartsAt(s, pat, j)
    ELSE 0

RFind(s, pat) ==
    IF Contains(s, pat)
    THEN CHOOSE i \in 1 .. Len(s) + 1 :
            /\ StartsAt(s, pat, i)
            /\ \A j \in i + 1 .. Len(s) + 1 : ~StartsAt(s, pat, j)
    ELSE 0

RECURSIVE Split(_, _)
\* str::split(c): the pieces between the occurrences of the character c
Split(s, c) ==
    LET at == Find(s, <<c>>)
    IN  IF at = 0 THEN <<s>>
        ELSE <<SubSeq(s, 1, at - 1)>> \o Split(SubSeq(s, at + 1, Len(s)), c)

\* request.lines().next(): the text before the first line feed, without a
\* carriage return at its end; None for the empty text
FirstLine(request) ==
    IF request = <<>> THEN None
    ELSE LET lf   == Find(request, <<"LF">>)
             line == IF lf = 0 THEN request ELSE SubSeq(request, 1, lf - 1)
         IN  IF line # <<>> /\ line[Len(line)] = "CR"
             THEN Some(SubSeq(line, 1, Len(line) - 1))
             ELSE Some(line)

RECURSIVE PercentDecode(_)
\* urlencoding::decode_binary: %XY with two hex digits becomes the byte XY,
\* everything else (a plus sign, a percent sign not followed by two hex digits) stays
PercentDecode(s) ==
    IF s = <<>> THEN <<>>
    ELSE IF /\ s[1] = "%"
            /\ Len(s) >= 3
            /\ IsHexChar(s[2])
            /\ IsHexChar(s[3])
    THEN <<CharOf(16 * HexVal(s[2]) + HexVal(s[3]))>>
            \o PercentDecode(SubSeq(s, 4, Len(s)))
    ELSE <<s[1]>> \o PercentDecode(Tail(s))

\* a byte from 0x80 on, and a continuation byte of UTF-8
IsHigh(c) == ByteOf(c) >= 128

IsContinuation(c) == ByteOf(c) \in 128 .. 191

RECURSIVE IsUtf8(_)
\* String::from_utf8 accepts the text: every byte from 0x80 on stands in a
\* sequence of a lead byte and its continuation bytes
IsUtf8(s) ==
    IF s = <<>> THEN TRUE
    ELSE IF ~IsHigh(s[1]) THEN IsUtf8(Tail(s))
    ELSE LET more == IF ByteOf(s[1]) \in 194 .. 223 THEN 1
                     ELSE IF ByteOf(s[1]) \in 224 .. 239 THEN 2
                     ELSE IF ByteOf(s[1]) \in 240 .. 244 THEN 3
                     ELSE 0
         IN  /\ more > 0
             /\ Len(s) > more
             /\ \A i \in 2 .. more + 1 : IsContinuation(s[i])
             /\ IsUtf8(SubSeq(s, more + 2, Len(s)))

\* urlencoding::decode(value).ok().map(|s| s.into_owned())
UrlDecode(value) ==
    LET bytes == PercentDecode(value)
    IN  IF IsUtf8(bytes) THEN Some(bytes) ELSE None

AccessTokenEq ==
    <<"a", "c", "c", "e", "s", "s", "_", "t", "o", "k", "e", "n", "=">>

SpaceHttp == <<" ", "H", "T", "T", "P">>

\* a slice first_line[a..b] with a > b
Panic == [kind |-> "panic"]

RECURSIVE FirstAccessToken(_)
\* lines 152-156: the first parameter that starts with access_token=
FirstAccessToken(params) ==
    IF params = <<>> THEN None
    ELSE IF StartsAt(Head(params), AccessTokenEq, 1)
    THEN UrlDecode(SubSeq(Head(params), Len(AccessTokenEq) + 1,
                          Len(Head(params))))
    ELSE FirstAccessToken(Tail(params))

try_parse_token_from_query(request) ==
    LET line == FirstLine(request)
    IN  IF line = None THEN None
        ELSE LET first_line == line.value
                 path_start == Find(first_line, <<"/">>)
                 path_end   == RFind(first_line, SpaceHttp)
             IN  IF ~Contains(first_line, AccessTokenEq) THEN None
                 ELSE IF path_start = 0 THEN None
                 ELSE IF path_end = 0 THEN None
                 ELSE IF path_start > path_end THEN Panic
                 ELSE LET path  == SubSeq(first_line, path_start, path_end - 1)
                          parts == Split(path, "?")
                      IN  IF Len(parts) < 2 THEN None
                          ELSE FirstAccessToken(Split(parts[2], "&"))

(***************************************************************************)
(* The requests try_parse_token_from_query is run on: a method, a request  *)
(* target and what follows it, and the empty request                       *)
(***************************************************************************)
Methods ==
    {
        <<"G", "E", "T", " ">>,
        <<"P", "O", "S", "T", " ">>
    }

\* with the two requests of the tests of lines 301-311
Targets ==
    {
        <<"/", "c", "a", "l", "l", "b", "a", "c", "k">>,
        <<"/", "t", "o", "k", "e", "n", "?", "a", "c", "c", "e", "s", "s",
          "_", "t", "o", "k", "e", "n", "=", "t", "e", "s", "t", "4", "5",
          "6", "&", "e", "x", "p", "i", "r", "e", "s", "_", "i", "n", "=",
          "3", "6", "0", "0">>,
        <<"/", "t", "o", "k", "e", "n", "?", "e", "x", "p", "i", "r", "e",
          "s", "_", "i", "n", "=", "3", "6", "0", "0", "&", "a", "c", "c",
          "e", "s", "s", "_", "t", "o", "k", "e", "n", "=", "t", "e", "s",
          "t", "4", "5", "6">>,
        <<"/", "t", "o", "k", "e", "n", "?", "a", "=", "1", "&", "a", "c",
          "c", "e", "s", "s", "_", "t", "o", "k", "e", "n", "=", "t", "%",
          "2", "0", "k", "&", "b", "=", "2">>,
        <<"/", "c", "a", "l", "l", "b", "a", "c", "k", "?", "s", "t", "a",
          "t", "e", "=", "1">>,
        <<"/", "t", "o", "k", "e", "n", "?", "x", "a", "c", "c", "e", "s",
          "s", "_", "t", "o", "k", "e", "n", "=", "1">>,
        <<"/", "t", "o", "k", "e", "n", "?", "a", "c", "c", "e", "s", "s",
          "_", "t", "o", "k", "e", "n", "=">>,
        <<"/", "t", "o", "k", "e", "n", "?", "a", "c", "c", "e", "s", "s",
          "_", "t", "o", "k", "e", "n", "=", "a", "&", "a", "c", "c", "e",
          "s", "s", "_", "t", "o", "k", "e", "n", "=", "b">>,
        <<"/", "c", "a", "l", "l", "b", "a", "c", "k", "#", "a", "c", "c",
          "e", "s", "s", "_", "t", "o", "k", "e", "n", "=", "x">>,
        <<"/", "t", "o", "k", "e", "n", "?", "n", "e", "x", "t", "=", "a",
          "?", "b", "&", "a", "c", "c", "e", "s", "s", "_", "t", "o", "k",
          "e", "n", "=", "t">>,
        <<"/", "t", "o", "k", "e", "n", "?", "a", "c", "c", "e", "s", "s",
          "_", "t", "o", "k", "e", "n", "=", "a", "?", "b">>,
        <<"/", "t", "o", "k", "e", "n", "?", "a", "c", "c", "e", "s", "s",
          "_", "t", "o", "k", "e", "n", "=", "%", "f", "f">>,
        <<"/", "t", "o", "k", "e", "n", "?", "a", "c", "c", "e", "s", "s",
          "_", "t", "o", "k", "e", "n", "=", "%", "C", "3", "%", "A", "9">>,
        <<"/", "t", "o", "k", "e", "n", "?", "a", "c", "c", "e", "s", "s",
          "_", "t", "o", "k", "e", "n", "=", "a", "%", "z", "z", "+", "b">>,
        <<"t", "o", "k", "e", "n", "?", "a", "c", "c", "e", "s", "s", "_",
          "t", "o", "k", "e", "n", "=", "t">>,
        <<"a", "c", "c", "e", "s", "s", "_", "t", "o", "k", "e", "n", "=",
          "t">>,
        <<"/", "l", "o", "b", "s", "t", "e", "r", ".", "p", "n", "g">>,
        <<"/", "c", "b", "/", "a", "c", "c", "e", "s", "s", "_", "t", "o",
          "k", "e", "n", "=", "1">>,
        <<"*">>,
        <<"/", "t", "o", "k", "e", "n", "?", "a", "c", "c", "e", "s", "s",
          "_", "t", "o", "k", "e", "n", "=", "a", "%", "2", "6", "b", "%",
          "3", "F", "c">>
    }

\* the rest of the request: the version and header lines, or nothing
Trailers ==
    {
        <<" ", "H", "T", "T", "P", "/", "1", ".", "1", "CR", "LF", "H",
          "o", "s", "t", ":", " ", "l", "o", "c", "a", "l", "h", "o", "s",
          "t", "CR", "LF", "CR", "LF">>,
        <<" ", "H", "T", "T", "P", "/", "1", ".", "1", "CR", "LF", "R",
          "e", "f", "e", "r", "e", "r", ":", " ", "/", "x", "?", "a", "c",
          "c", "e", "s", "s", "_", "t", "o", "k", "e", "n", "=", "z", "z",
          "CR", "LF", "CR", "LF">>,
        <<>>
    }

Requests ==
    { <<>> } \cup { m \o target \o rest :
                      m \in Methods, target \in Targets, rest \in Trailers }

(***************************************************************************)
(* screens/create.rs start_deployment and screens/prompt.rs                *)
(* start_prompt_submission: the task each of them spawns                   *)
(***************************************************************************)
ZeroX == <<"0", "x">>

RECURSIVE TrimStartMatches(_, _)
\* str::trim_start_matches: the pattern is removed from the start as often as
\* it stands there
TrimStartMatches(s, pat) ==
    IF StartsAt(s, pat, 1)
    THEN TrimStartMatches(SubSeq(s, Len(pat) + 1, Len(s)), pat)
    ELSE s

\* hex::decode(text.trim_start_matches("0x"))
DecodeHexField(text) == HexDecode(TrimStartMatches(text, ZeroX))

\* the call data texts and genesis hash texts of a build response
CallDataHexes ==
    {
        <<"0", "x", "0", "0", "0", "1", "0", "2">>,
        <<"0", "0", "0", "1", "0", "2">>,
        <<"0", "x">>,
        <<"0", "x", "A", "b", "0", "c">>,
        <<"0", "x", "0", "x", "0", "0", "0", "1", "0", "2">>,
        <<"0", "x", "0", "1", "2">>,
        <<"0", "x", "0", "0", "z", "z">>,
        <<"0", "X", "0", "0", "0", "1">>
    }

GenesisHashHexes ==
    {
        <<"0", "x", "a", "b", "a", "b", "a", "b", "a", "b", "a", "b", "a",
          "b", "a", "b", "a", "b", "a", "b", "a", "b", "a", "b", "a", "b",
          "a", "b", "a", "b", "a", "b", "a", "b", "a", "b", "a", "b", "a",
          "b", "a", "b", "a", "b", "a", "b", "a", "b", "a", "b", "a", "b",
          "a", "b", "a", "b", "a", "b", "a", "b", "a", "b", "a", "b", "a",
          "b">>,
        <<"0", "0", "0", "0", "0", "0", "0", "0", "0", "0", "0", "0", "0",
          "0", "0", "0", "0", "0", "0", "0", "0", "0", "0", "0", "0", "0",
          "0", "0", "0", "0", "0", "0", "0", "0", "0", "0", "0", "0", "0",
          "0", "0", "0", "0", "0", "0", "0", "0", "0", "0", "0", "0", "0",
          "0", "0", "0", "0", "0", "0", "0", "0", "0", "0", "0", "0">>,
        <<"0", "x", "a", "b", "a", "b", "a", "b", "a", "b", "a", "b", "a",
          "b", "a", "b", "a", "b", "a", "b", "a", "b", "a", "b", "a", "b",
          "a", "b", "a", "b", "a", "b", "a", "b", "a", "b", "a", "b", "a",
          "b", "a", "b", "a", "b", "a", "b", "a", "b", "a", "b", "a", "b",
          "a", "b", "a", "b", "a", "b", "a", "b", "a", "b", "a", "b">>,
        <<"0", "x", "a", "b", "a", "b", "a", "b", "a", "b", "a", "b", "a",
          "b", "a", "b", "a", "b", "a", "b", "a", "b", "a", "b", "a", "b",
          "a", "b", "a", "b", "a", "b", "a", "b", "a", "b", "a", "b", "a",
          "b", "a", "b", "a", "b", "a", "b", "a", "b", "a", "b", "a", "b",
          "a", "b", "a", "b", "a", "b", "a", "b", "a", "b", "a", "b", "a",
          "b", "a", "b">>,
        <<"0", "x", "a", "b", "a", "b", "a", "b", "a", "b", "a", "b", "a",
          "b", "a", "b", "a", "b", "a", "b", "a", "b", "a", "b", "a", "b",
          "a", "b", "a", "b", "a", "b", "a", "b", "a", "b", "a", "b", "a",
          "b", "a", "b", "a", "b", "a", "b", "a", "b", "a", "b", "a", "b",
          "a", "b", "a", "b", "a", "b", "a", "b", "a", "b", "a", "b", "a">>,
        <<"0", "x", "a", "b", "a", "b", "a", "b", "a", "b", "a", "b", "a",
          "b", "a", "b", "a", "b", "a", "b", "a", "b", "a", "b", "a", "b",
          "a", "b", "a", "b", "a", "b", "a", "b", "a", "b", "a", "b", "a",
          "b", "a", "b", "a", "b", "a", "b", "a", "b", "a", "b", "a", "b",
          "a", "b", "a", "b", "a", "b", "a", "b", "a", "b", "a", "b", "g",
          "0">>,
        <<"0", "x", "0", "x", "a", "b", "a", "b", "a", "b", "a", "b", "a",
          "b", "a", "b", "a", "b", "a", "b", "a", "b", "a", "b", "a", "b",
          "a", "b", "a", "b", "a", "b", "a", "b", "a", "b", "a", "b", "a",
          "b", "a", "b", "a", "b", "a", "b", "a", "b", "a", "b", "a", "b",
          "a", "b", "a", "b", "a", "b", "a", "b", "a", "b", "a", "b", "a",
          "b", "a", "b">>
    }

\* BuildExtrinsicResponse
BuildExtrinsicResponses ==
    [call_data_hex : CallDataHexes,
     nonce : { <<>>, NumFromInt(1073741824) },
     genesis_hash : GenesisHashHexes,
     spec_version : { <<1>> },
     transaction_version : { <<1>> }]

Ok(x) == [kind |-> "Ok", value |-> x]

Err == [kind |-> "Err"]

\* an AppMessage
Msg(type, value) == [type |-> type, value |-> value]

\* DeployFailed(..) of the deployment task, PromptFailed(..) of the prompt task
Failed(kind, error) ==
    Msg(IF kind = "deploy" THEN "DeployFailed" ELSE "PromptFailed", error)

\* Ok(d) if d.len() == 32
GenesisHashOk(d) == d.kind = "Ok" /\ Len(d.value) = 32

\* WalletConfig::keypair: the mnemonic of the wallet file parses or does not
Keypair(w) ==
    IF w.mnemonic = "valid" THEN Ok([public_key |-> w.public_key]) ELSE Err

\* mutant: a failed submission is submitted again
AfterSubmit_Resubmit(submit_result) ==
    IF submit_result.kind = "Err" THEN "submit" ELSE "parse"

\* the match on client.submit_extrinsic(..).await: Err returns
AfterSubmit(submit_result) ==
    IF submit_result.kind = "Err" THEN "done" ELSE "parse"

\* mutant: a missing event is taken for success, with a default value
Outcome_Default(kind, parsed) ==
    IF kind = "deploy"
    THEN Msg("DeployDone",
             IF parsed = None THEN Ss58Check(<<>>) ELSE parsed.value)
    ELSE Msg("PromptSubmitted", IF parsed = None THEN <<>> ELSE parsed.value)

\* create.rs lines 894-909, prompt.rs lines 266-277: the message sent for
\* what the event decoder returned
Outcome(kind, parsed) ==
    IF kind = "deploy"
    THEN IF parsed = None
         THEN Msg("DeployFailed", "Could not find AgentRegistered event")
         ELSE Msg("DeployDone", parsed.value)
    ELSE IF parsed = None
         THEN Msg("PromptFailed", "Could not find AgentCallQueued event")
         ELSE Msg("PromptSubmitted", parsed.value)

\* the wallets: WalletConfig of a wallet file, whose mnemonic may be no
\* mnemonic
Wallets ==
    [mnemonic : {"valid", "invalid"}, public_key : { Fill(212, <<32>>) }]

\* the event lists of a SubmitResponse
MaxSubmitEvents == 1

SubmitResponses == { Ok(l) : l \in EventLists(MaxSubmitEvents) } \cup { Err }

\* the events a stream delivers before it ends
MaxStreamEvents == 2

\* CreateScreen::handle_deploy_done
handle_deploy_done(c, agent_address) ==
    [c EXCEPT !.agent_address = Some(agent_address), !.step = "Success"]

\* CreateScreen::handle_deploy_failed
handle_deploy_failed(c, error) ==
    [c EXCEPT !.error = Some(error), !.step = "Compiling"]

\* PromptScreen::handle_prompt_submitted
handle_prompt_submitted(p, id) ==
    [p EXCEPT !.run_id = Some(id), !.step = "Running"]

\* PromptScreen::handle_run_completed
handle_run_completed(p, result) ==
    [p EXCEPT !.step = "Complete", !.final_output = Some(result)]

\* PromptScreen::handle_prompt_failed
handle_prompt_failed(p, error) ==
    [p EXCEPT !.step = "Complete", !.error = Some(error)]

\* PromptScreen::handle_chain_event; the status lines and chat messages of
\* the screen are not kept
handle_chain_event(p, event) ==
    IF event.kind = "Completed" THEN [p EXCEPT !.final_output = Some(event.text)]
    ELSE IF event.kind = "Failed" THEN [p EXCEPT !.error = Some(event.text)]
    ELSE p

VARIABLES
    pc,                   \* where build_signed_extrinsic stands
    call_data, nonce, genesis_hash, spec_version, transaction_version,
    public_key,           \* keypair.public_key().0
    payload,              \* the signing payload
    message,              \* what keypair.sign was called on
    signature,            \* signature.0
    extrinsic,
    final_extrinsic,
    output,               \* the value returned: Ok(String)
    events,               \* the events of a submit result
    agent_address,        \* what parse_agent_registered_event returned
    run_id,               \* what parse_agent_call_queued_event returned
    concurrent,           \* the locals of a second call running concurrently
    request,              \* the argument of try_parse_token_from_query
    token,                \* what it returned
    screen,               \* App.screen
    config,               \* App.config
    client,               \* App.client
    wallet,               \* App.wallet
    error_message,        \* App.error_message
    create,               \* App.create
    prompt,               \* App.prompt
    exit,                 \* how run_app returned, "none" while it runs
    chan,                 \* the messages sent on tx and not received yet
    flow,                 \* the task of start_deployment or
                          \* start_prompt_submission
    tasks                 \* the tasks spawned by the application that have
                          \* not ended, and how many were spawned

extrinsicVars ==
    <<pc, call_data, nonce, genesis_hash, spec_version, transaction_version,
      public_key, payload, message, signature, extrinsic, final_extrinsic,
      output>>

inputVars ==
    <<call_data, nonce, genesis_hash, spec_version, transaction_version,
      public_key>>

eventVars == <<events, agent_address, run_id>>

\* the state outside build_signed_extrinsic and the event decoders
tokenVars == <<request, token>>

\* the state of the pure functions
libVars == <<extrinsicVars, eventVars, concurrent, tokenVars>>

appVars ==
    <<screen, config, client, wallet, error_message, create, prompt, exit,
      tasks>>

restVars == <<concurrent, tokenVars, appVars, chan, flow>>

vars == <<extrinsicVars, eventVars, restVars>>

\* a result not computed yet
Pending == [kind |-> "pending"]

\* build_signed_extrinsic not called
ExtrinsicIdle ==
    /\ pc = "idle"
    /\ call_data = VecNew
    /\ nonce = <<>>
    /\ genesis_hash = VecNew
    /\ spec_version = <<>>
    /\ transaction_version = <<>>
    /\ public_key = VecNew
    /\ payload = VecNew
    /\ message = Pending
    /\ signature = VecNew
    /\ extrinsic = VecNew
    /\ final_extrinsic = VecNew
    /\ output = Pending

\* the decoders not called
EventsIdle ==
    /\ events = <<>>
    /\ agent_address = Pending
    /\ run_id = Pending

\* no second call of build_signed_extrinsic
ConcurrentIdle == concurrent = [pc |-> "idle"]

\* try_parse_token_from_query not called
TokenIdle == request = <<>> /\ token = Pending

\* no task spawned
NoTasks == [pool |-> {}, logins |-> 0, checks |-> 0, compiles |-> 0]

\* no application: the pure functions are run on their own
AppIdle ==
    /\ screen = "Home"
    /\ config = [auth_token |-> None]
    /\ client = [auth_token |-> None]
    /\ wallet = None
    /\ error_message = None
    /\ create = [step |-> "SelectAgentSource"]
    /\ prompt = [step |-> "EnterPrompt"]
    /\ exit = "idle"
    /\ chan = <<>>
    /\ flow = [pc |-> "idle"]
    /\ tasks = NoTasks

RestIdle == ConcurrentIdle /\ TokenIdle /\ AppIdle

InitExtrinsic ==
    /\ pc = "entry"
    /\ call_data \in CallDatas
    /\ nonce \in Nonces
    /\ genesis_hash \in GenesisHashes
    /\ spec_version \in SpecVersions
    /\ transaction_version \in TxVersions
    /\ public_key \in PublicKeys
    /\ payload = VecNew
    /\ message = Pending
    /\ signature = VecNew
    /\ extrinsic = VecNew
    /\ final_extrinsic = VecNew
    /\ output = Pending
    /\ EventsIdle
    /\ RestIdle

\* lines 44-79
BuildPayload ==
    /\ pc = "entry"
    /\ payload' = SigningPayload(call_data, nonce, genesis_hash,
                                 spec_version, transaction_version)
    /\ pc' = "payload"
    /\ UNCHANGED <<inputVars, message, signature, extrinsic,
                   final_extrinsic, output, eventVars, restVars>>

\* lines 84-90
Sign ==
    /\ pc = "payload"
    /\ message' = SignedMessage(payload)
    /\ \E sig \in Signatures : signature' = sig
    /\ pc' = "signed"
    /\ UNCHANGED <<inputVars, payload, extrinsic, final_extrinsic, output,
                   eventVars, restVars>>

\* lines 93-130
Assemble ==
    /\ pc = "signed"
    /\ extrinsic' = Extrinsic(public_key, signature, nonce, call_data)
    /\ final_extrinsic' = FinalExtrinsic(extrinsic')
    /\ output' = [kind |-> "Ok", value |-> HexString(final_extrinsic')]
    /\ pc' = "returned"
    /\ UNCHANGED <<inputVars, payload, message, signature, eventVars,
                   restVars>>

NextExtrinsic == BuildPayload \/ Sign \/ Assemble

SpecExtrinsic == InitExtrinsic /\ [][NextExtrinsic]_vars

InitEvents ==
    /\ ExtrinsicIdle
    /\ events \in EventLists(MaxEvents)
    /\ agent_address = Pending
    /\ run_id = Pending
    /\ RestIdle

ParseAgentRegistered ==
    /\ agent_address = Pending
    /\ agent_address' = parse_agent_registered_event(events)
    /\ UNCHANGED <<extrinsicVars, events, run_id, restVars>>

ParseAgentCallQueued ==
    /\ run_id = Pending
    /\ run_id' = parse_agent_call_queued_event(events)
    /\ UNCHANGED <<extrinsicVars, events, agent_address, restVars>>

NextEvents == ParseAgentRegistered \/ ParseAgentCallQueued

SpecEvents == InitEvents /\ [][NextEvents]_vars

(***************************************************************************)
(* Two calls of build_signed_extrinsic on the same arguments, on two       *)
(* threads: the function has locals only, so each call steps on its own    *)
(***************************************************************************)
InitConcurrent ==
    /\ pc = "entry"
    /\ call_data \in CallDatas
    /\ nonce \in Nonces
    /\ genesis_hash \in GenesisHashes
    /\ spec_version \in SpecVersions
    /\ transaction_version \in TxVersions
    /\ public_key \in PublicKeys
    /\ payload = VecNew
    /\ message = Pending
    /\ signature = VecNew
    /\ extrinsic = VecNew
    /\ final_extrinsic = VecNew
    /\ output = Pending
    /\ EventsIdle
    /\ concurrent = [pc |-> "entry", payload |-> VecNew, message |-> Pending,
                     signature |-> VecNew, extrinsic |-> VecNew,
                     final_extrinsic |-> VecNew, output |-> Pending]
    /\ TokenIdle
    /\ AppIdle

\* lines 44-79, second call
ConcurrentBuildPayload ==
    /\ concurrent.pc = "entry"
    /\ concurrent' =
          [concurrent EXCEPT
             !.payload = SigningPayload(call_data, nonce, genesis_hash,
                                        spec_version, transaction_version),
             !.pc = "payload"]
    /\ UNCHANGED <<extrinsicVars, eventVars, tokenVars, appVars, chan, flow>>

\* lines 84-90, second call
ConcurrentSign ==
    /\ concurrent.pc = "payload"
    /\ \E sig \in Signatures :
          concurrent' =
             [concurrent EXCEPT
                !.message = SignedMessage(concurrent.payload),
                !.signature = sig,
                !.pc = "signed"]
    /\ UNCHANGED <<extrinsicVars, eventVars, tokenVars, appVars, chan, flow>>

\* lines 93-130, second call
ConcurrentAssemble ==
    /\ concurrent.pc = "signed"
    /\ LET ext == Extrinsic(public_key, concurrent.signature, nonce, call_data)
       IN  concurrent' =
              [concurrent EXCEPT
                 !.extrinsic = ext,
                 !.final_extrinsic = FinalExtrinsic(ext),
                 !.output = [kind |-> "Ok",
                             value |-> HexString(FinalExtrinsic(ext))],
                 !.pc = "returned"]
    /\ UNCHANGED <<extrinsicVars, eventVars, tokenVars, appVars, chan, flow>>

NextConcurrent ==
    \/ NextExtrinsic
    \/ ConcurrentBuildPayload
    \/ ConcurrentSign
    \/ ConcurrentAssemble

SpecConcurrent == InitConcurrent /\ [][NextConcurrent]_vars

(***************************************************************************)
(* try_parse_token_from_query on one request                               *)
(***************************************************************************)
InitToken ==
    /\ ExtrinsicIdle
    /\ EventsIdle
    /\ ConcurrentIdle
    /\ request \in Requests
    /\ token = Pending
    /\ AppIdle

TryParseTokenFromQuery ==
    /\ token = Pending
    /\ token' = try_parse_token_from_query(request)
    /\ UNCHANGED <<extrinsicVars, eventVars, concurrent, request, appVars,
                   chan, flow>>

NextToken == TryParseTokenFromQuery

SpecToken == InitToken /\ [][NextToken]_vars

(***************************************************************************)
(* The task of a deployment (create.rs lines 807-910) or of a prompt       *)
(* submission (prompt.rs lines 194-359), and the application receiving     *)
(* its messages (app.rs lines 678-713)                                     *)
(***************************************************************************)
\* the task as tokio::spawn starts it
FlowStart(kind, w) ==
    [kind |-> kind, pc |-> "build", wallet |-> w,
     build_result |-> Pending, call_data |-> Pending,
     genesis_hash |-> Pending, keypair |-> Pending, signed_hex |-> Pending,
     submit_result |-> Pending, streamed |-> 0, trace |-> <<>>,
     sent |-> <<>>]

\* a step of the task, from f to the step next, with tx.send(..).await of
\* the messages; the steps taken and the messages sent are noted
Step(f, name, next, msgs) ==
    /\ flow' = [f EXCEPT !.pc = next,
                         !.trace = Append(@, name),
                         !.sent = @ \o [i \in 1 .. Len(msgs) |-> msgs[i].type]]
    /\ chan' = chan \o msgs

\* a configuration of a logged-in user
LoggedIn(address, name) ==
    [server_url |-> "http://localhost:8080", auth_token |-> Some("token"),
     agent_address |-> address, agent_name |-> name,
     custom_agent_dir |-> None]

InitFlow ==
    /\ ExtrinsicIdle
    /\ EventsIdle
    /\ ConcurrentIdle
    /\ TokenIdle
    /\ client = [auth_token |-> Some("token")]
    /\ wallet \in { Some(w) : w \in Wallets }
    /\ error_message = None
    /\ exit = "none"
    /\ chan = <<>>
    /\ tasks = NoTasks
    /\ \E kind \in {"deploy", "prompt"} :
          /\ flow = FlowStart(kind, wallet.value)
          /\ screen = IF kind = "deploy" THEN "Create" ELSE "Prompt"
          /\ config \in
                IF kind = "deploy"
                THEN { LoggedIn(None, None),
                       LoggedIn(Some(Ss58Check(<<0>>)), Some("old name")) }
                ELSE { LoggedIn(Some(Ss58Check(<<0>>)), Some("old name")) }
          /\ create =
                [step |-> IF kind = "deploy" THEN "Deploying"
                          ELSE "SelectAgentSource",
                 agent_name |-> IF kind = "deploy" THEN "name" ELSE "",
                 agent_id |-> IF kind = "deploy" THEN Some("id") ELSE None,
                 compiled_hex |-> IF kind = "deploy" THEN Some("compiled")
                                  ELSE None,
                 agent_address |-> None, error |-> None]
          /\ prompt =
                [step |-> IF kind = "prompt" THEN "Submitting"
                          ELSE "EnterPrompt",
                 run_id |-> None, error |-> None, final_output |-> None]

\* create.rs lines 809-820, prompt.rs lines 196-202
FlowBuild ==
    /\ flow.pc = "build"
    /\ \E r \in { Ok(b) : b \in BuildExtrinsicResponses } \cup { Err } :
          Step([flow EXCEPT !.build_result = r], "build",
               IF r.kind = "Err" THEN "done" ELSE "decode_call_data",
               IF r.kind = "Err"
               THEN <<Failed(flow.kind, "Build failed")>> ELSE <<>>)
    /\ UNCHANGED <<libVars, appVars>>

\* create.rs lines 823-834, prompt.rs lines 205-211
FlowDecodeCallData ==
    /\ flow.pc = "decode_call_data"
    /\ LET d == DecodeHexField(flow.build_result.value.call_data_hex)
       IN  Step([flow EXCEPT !.call_data = d], "decode_call_data",
                IF d.kind = "Err" THEN "done" ELSE "decode_genesis_hash",
                IF d.kind = "Err"
                THEN <<Failed(flow.kind, "Invalid call data")>> ELSE <<>>)
    /\ UNCHANGED <<libVars, appVars>>

\* create.rs lines 836-849, prompt.rs lines 213-223
FlowDecodeGenesisHash ==
    /\ flow.pc = "decode_genesis_hash"
    /\ LET d == DecodeHexField(flow.build_result.value.genesis_hash)
       IN  Step([flow EXCEPT !.genesis_hash = IF GenesisHashOk(d) THEN d
                                              ELSE Err],
                "decode_genesis_hash",
                IF GenesisHashOk(d) THEN "keypair" ELSE "done",
                IF GenesisHashOk(d) THEN <<>>
                ELSE <<Failed(flow.kind, "Invalid genesis hash")>>)
    /\ UNCHANGED <<libVars, appVars>>

\* create.rs lines 852-860, prompt.rs lines 226-234
FlowKeypair ==
    /\ flow.pc = "keypair"
    /\ LET k == Keypair(flow.wallet)
       IN  Step([flow EXCEPT !.keypair = k], "keypair",
                IF k.kind = "Err" THEN "done" ELSE "sign",
                IF k.kind = "Err"
                THEN <<Failed(flow.kind, "Wallet error")>>
                ELSE IF flow.kind = "prompt"
                THEN <<Msg("PromptStatus", "Signing extrinsic...")>>
                ELSE <<>>)
    /\ UNCHANGED <<libVars, appVars>>

\* create.rs lines 863-878, prompt.rs lines 237-252: build_signed_extrinsic
\* on the decoded fields; it returns Ok whatever it is given
FlowSign ==
    /\ flow.pc = "sign"
    /\ \E sig \in Signatures :
          LET b   == flow.build_result.value
              ext == Extrinsic(flow.keypair.value.public_key, sig, b.nonce,
                               Slice(flow.call_data.value))
          IN  Step([flow EXCEPT !.signed_hex =
                                   Ok(HexString(FinalExtrinsic(ext)))],
                   "sign", "submit",
                   IF flow.kind = "prompt"
                   THEN <<Msg("PromptStatus", "Submitting to chain...")>>
                   ELSE <<>>)
    /\ UNCHANGED <<libVars, appVars>>

\* create.rs lines 881-889, prompt.rs lines 255-261
FlowSubmit ==
    /\ flow.pc = "submit"
    /\ \E r \in SubmitResponses :
          Step([flow EXCEPT !.submit_result = r], "submit", AfterSubmit(r),
               IF r.kind = "Err"
               THEN <<Failed(flow.kind, "Submit failed")>> ELSE <<>>)
    /\ UNCHANGED <<libVars, appVars>>

\* create.rs lines 892-909; prompt.rs lines 264-277 and 286, where a run id
\* found starts stream_run_events
FlowParse ==
    /\ flow.pc = "parse"
    /\ LET parsed == IF flow.kind = "deploy"
                     THEN parse_agent_registered_event(
                              flow.submit_result.value)
                     ELSE parse_agent_call_queued_event(
                              flow.submit_result.value)
           msg    == Outcome(flow.kind, parsed)
       IN  IF msg.type = "PromptSubmitted"
           THEN Step(flow, "parse", "connect",
                     <<msg, Msg("PromptStatus", "Run ID")>>)
           ELSE Step(flow, "parse", "done", <<msg>>)
    /\ UNCHANGED <<libVars, appVars>>

\* prompt.rs lines 289-309
FlowConnect ==
    /\ flow.pc = "connect"
    /\ \/ Step(flow, "connect", "streaming", <<>>)
       \/ \E e \in {"SSE connection failed", "SSE connection error"} :
             Step(flow, "connect", "done", <<Msg("PromptFailed", e)>>)
    /\ UNCHANGED <<libVars, appVars>>

ChainEventData(kind) == [kind |-> kind, text |-> "text"]

\* prompt.rs lines 317-358: the stream ends, fails, or delivers an event
FlowStream ==
    /\ flow.pc = "streaming"
    /\ \/ Step(flow, "end of stream", "done", <<>>)
       \/ Step(flow, "stream error", "done",
               <<Msg("PromptFailed", "SSE error")>>)
       \/ Step(flow, "Completed", "done",
               <<Msg("ChainEvent", ChainEventData("Completed")),
                 Msg("RunCompleted", "text")>>)
       \/ Step(flow, "Failed", "done",
               <<Msg("ChainEvent", ChainEventData("Failed")),
                 Msg("PromptFailed", "text")>>)
       \/ Step(flow, "error event", "done",
               <<Msg("PromptStatus", "[error]"),
                 Msg("PromptFailed", "text")>>)
       \/ /\ flow.streamed < MaxStreamEvents
          /\ \/ Step([flow EXCEPT !.streamed = @ + 1], "event", "streaming",
                     <<Msg("ChainEvent", ChainEventData("Messages"))>>)
             \/ Step([flow EXCEPT !.streamed = @ + 1], "event", "streaming",
                     <<Msg("PromptStatus", "[event]")>>)
    /\ UNCHANGED <<libVars, appVars>>

\* run_app lines 107-109: the next message, while the application runs
Receives(type) ==
    /\ exit = "none"
    /\ chan # <<>>
    /\ Head(chan).type = type

\* app.rs lines 678-694; config.save() may fail, and then run_app returns
HandleDeployDone ==
    /\ Receives("DeployDone")
    /\ chan' = Tail(chan)
    /\ config' = [config EXCEPT !.agent_address = Some(Head(chan).value),
                                !.agent_name = Some(create.agent_name)]
    /\ \/ /\ create' = handle_deploy_done(create, Head(chan).value)
          /\ exit' = exit
       \/ /\ create' = create
          /\ exit' = "error"
    /\ UNCHANGED <<libVars, screen, client, wallet, error_message, prompt,
                   flow, tasks>>

\* app.rs lines 695-698
HandleDeployFailed ==
    /\ Receives("DeployFailed")
    /\ chan' = Tail(chan)
    /\ error_message' = Some("Deployment failed")
    /\ create' = handle_deploy_failed(create, Head(chan).value)
    /\ UNCHANGED <<libVars, screen, config, client, wallet, prompt, exit,
                   flow, tasks>>

\* app.rs lines 699-701
HandlePromptSubmitted ==
    /\ Receives("PromptSubmitted")
    /\ chan' = Tail(chan)
    /\ prompt' = handle_prompt_submitted(prompt, Head(chan).value)
    /\ UNCHANGED <<libVars, screen, config, client, wallet, error_message,
                   create, exit, flow,
                   tasks>>

\* app.rs lines 702-704
HandleChainEvent ==
    /\ Receives("ChainEvent")
    /\ chan' = Tail(chan)
    /\ prompt' = handle_chain_event(prompt, Head(chan).value)
    /\ UNCHANGED <<libVars, screen, config, client, wallet, error_message,
                   create, exit, flow,
                   tasks>>

\* app.rs lines 705-707: a status line for the screen
HandlePromptStatus ==
    /\ Receives("PromptStatus")
    /\ chan' = Tail(chan)
    /\ UNCHANGED <<libVars, appVars, flow>>

\* app.rs lines 708-710
HandleRunCompleted ==
    /\ Receives("RunCompleted")
    /\ chan' = Tail(chan)
    /\ prompt' = handle_run_completed(prompt, Head(chan).value)
    /\ UNCHANGED <<libVars, screen, config, client, wallet, error_message,
                   create, exit, flow,
                   tasks>>

\* app.rs lines 711-713
HandlePromptFailed ==
    /\ Receives("PromptFailed")
    /\ chan' = Tail(chan)
    /\ prompt' = handle_prompt_failed(prompt, Head(chan).value)
    /\ UNCHANGED <<libVars, screen, config, client, wallet, error_message,
                   create, exit, flow,
                   tasks>>

NextFlow ==
    \/ FlowBuild
    \/ FlowDecodeCallData
    \/ FlowDecodeGenesisHash
    \/ FlowKeypair
    \/ FlowSign
    \/ FlowSubmit
    \/ FlowParse
    \/ FlowConnect
    \/ FlowStream
    \/ HandleDeployDone
    \/ HandleDeployFailed
    \/ HandlePromptSubmitted
    \/ HandleChainEvent
    \/ HandlePromptStatus
    \/ HandleRunCompleted
    \/ HandlePromptFailed

SpecFlow == InitFlow /\ [][NextFlow]_vars

(***************************************************************************)
(* The application: App::handle_key and App::handle_message of app.rs,     *)
(* the loop of run_app, and the tasks they spawn.  A token is named by the *)
(* number of the login attempt that obtained it, 0 for the token found on  *)
(* disk at the start.  Of the create wizard, the steps from                *)
(* ConfigureSchedule on are modelled; of App, the fields the handlers      *)
(* below read or write.                                                    *)
(***************************************************************************)

\* the login attempts, the session checks and the compilations of a run
MaxLogins == 1

MaxChecks == 1

MaxCompiles == 1

AppConfig(auth_token, address, name) ==
    [server_url |-> "http://localhost:8080", auth_token |-> auth_token,
     agent_address |-> address, agent_name |-> name,
     custom_agent_dir |-> None]

\* AppConfig::is_authenticated
is_authenticated(c) == c.auth_token.kind = "Some"

\* mutant: every user has an agent
has_agent_Always(c) == TRUE

\* AppConfig::has_agent
has_agent(c) == c.agent_address.kind = "Some"

\* mutant: logout forgets the token and keeps the agent
logout_TokenOnly(c) == [c EXCEPT !.auth_token = None]

\* AppConfig::logout
logout(c) ==
    [c EXCEPT !.auth_token = None, !.agent_address = None,
              !.agent_name = None]

\* CreateScreen::new, the fields modelled
CreateNew ==
    [step |-> "SelectAgentSource", agent_name |-> "", agent_id |-> None,
     compiled_hex |-> None, agent_address |-> None, error |-> None]

\* CreateScreen::reset: a new screen that keeps the agent source selection
reset(c) == CreateNew

\* CreateScreen::handle_compile_done
handle_compile_done(c, compiled_hex) ==
    [c EXCEPT !.compiled_hex = Some(compiled_hex), !.step = "Deploying"]

\* CreateScreen::handle_compile_failed
handle_compile_failed(c, error) ==
    [c EXCEPT !.error = Some(error), !.step = "ConfigureSchedule"]

\* PromptScreen::new, the fields modelled
PromptNew ==
    [step |-> "EnterPrompt", run_id |-> None, error |-> None,
     final_output |-> None]

\* the wallet WalletConfig::load_or_generate yields
GeneratedWallet == [mnemonic |-> "valid", public_key |-> Fill(212, <<32>>)]

\* a spawned task: its kind, its number among the tasks of its kind, and the
\* token it works for
Task(kind, id, of) == [kind |-> kind, id |-> id, of |-> of]

\* tokio::spawn
Spawn(t, task) == [t EXCEPT !.pool = @ \cup {task}]

\* the task returns
Ended(t, task) == [t EXCEPT !.pool = @ \ {task}]

\* the agent the server knows for the user of a token
ServerAgent(user) ==
    [name |-> "restored", chain_address |-> Ss58Check(<<100 + user>>)]

\* a wizard that has reached the schedule step
AtConfigureSchedule ==
    [CreateNew EXCEPT !.step = "ConfigureSchedule", !.agent_name = "name",
                      !.agent_id = Some("id")]

\* App::new and init_session: no session on disk; or a session on disk,
\* which init_session has a task validate; or, later in such a run, the
\* wizard at the schedule step
InitApp ==
    /\ ExtrinsicIdle
    /\ EventsIdle
    /\ ConcurrentIdle
    /\ TokenIdle
    /\ flow = [pc |-> "idle"]
    /\ chan = <<>>
    /\ exit = "none"
    /\ error_message = None
    /\ prompt = PromptNew
    /\ \/ /\ config = AppConfig(None, None, None)
          /\ client = [auth_token |-> None]
          /\ wallet = None
          /\ screen = "Home"
          /\ create = CreateNew
          /\ tasks = NoTasks
       \/ /\ config \in { AppConfig(Some(0), None, None),
                          AppConfig(Some(0), Some(Ss58Check(<<0>>)),
                                    Some("old name")) }
          /\ client = [auth_token |-> Some(0)]
          /\ wallet \in { None, Some(GeneratedWallet) }
          /\ screen = "Home"
          /\ create = CreateNew
          /\ tasks = Spawn(NoTasks, Task("session", 0, 0))
       \/ /\ config = AppConfig(Some(0), None, None)
          /\ client = [auth_token |-> Some(0)]
          /\ wallet \in { None, Some(GeneratedWallet) }
          /\ screen = "Create"
          /\ create = AtConfigureSchedule
          /\ tasks = NoTasks

\* run_app: the loop runs
Running == exit = "none"

\* App::handle_key line 412 and handle_home_key lines 448-457: key 1
HomeKey1 ==
    /\ Running
    /\ screen = "Home"
    /\ error_message' = None
    /\ IF ~is_authenticated(config)
       THEN /\ screen' = "EmailInput"
            /\ create' = create
       ELSE /\ screen' = "Create"
            /\ create' = reset(create)
    /\ UNCHANGED <<libVars, config, client, wallet, prompt, exit, tasks,
                   chan, flow>>

\* handle_home_key lines 475-479: key 4 of a logged-in user; when
\* config.save() fails the handler returns the error and run_app ends
HomeKey4 ==
    /\ Running
    /\ screen = "Home"
    /\ is_authenticated(config)
    /\ error_message' = None
    /\ config' = logout(config)
    /\ \/ /\ client' = [client EXCEPT !.auth_token = None]
          /\ exit' = exit
       \/ /\ client' = client
          /\ exit' = "error"
    /\ UNCHANGED <<libVars, screen, wallet, create, prompt, tasks, chan,
                   flow>>

\* run_app lines 127-130: key q on the Home screen
HomeKeyQ ==
    /\ Running
    /\ screen = "Home"
    /\ exit' = "quit"
    /\ UNCHANGED <<libVars, screen, config, client, wallet, error_message,
                   create, prompt, tasks, chan, flow>>

\* handle_email_input_key lines 493-500 and start_email_auth lines 517-536:
\* Enter on an address typed
EmailInputEnter ==
    /\ Running
    /\ screen = "EmailInput"
    /\ \E valid \in BOOLEAN :
          IF valid
          THEN /\ tasks.logins < MaxLogins
               /\ screen' = "Auth"
               /\ error_message' = None
               /\ tasks' = Spawn([tasks EXCEPT !.logins = @ + 1],
                                 Task("login", tasks.logins + 1,
                                      tasks.logins + 1))
          ELSE /\ screen' = screen
               /\ error_message' = Some("Please enter a valid email address")
               /\ tasks' = tasks
    /\ UNCHANGED <<libVars, config, client, wallet, create, prompt, exit,
                   chan, flow>>

\* handle_email_input_key lines 502-505 and handle_auth_key lines 510-515:
\* Esc leaves the screen; the login task, if any, goes on
LoginEsc ==
    /\ Running
    /\ screen \in {"EmailInput", "Auth"}
    /\ screen' = "Home"
    /\ error_message' = None
    /\ UNCHANGED <<libVars, config, client, wallet, create, prompt, exit,
                   tasks, chan, flow>>

\* handle_configure_schedule_key (create.rs lines 518-631): Enter on a valid
\* schedule and balance; start_compilation (lines 665-712) spawns the task
CreateEnter ==
    /\ Running
    /\ screen = "Create"
    /\ create.step = "ConfigureSchedule"
    /\ tasks.compiles < MaxCompiles
    /\ error_message' = None
    /\ create' = [create EXCEPT !.step = "Compiling"]
    /\ tasks' = Spawn([tasks EXCEPT !.compiles = @ + 1],
                      Task("compile", tasks.compiles + 1,
                           config.auth_token.value))
    /\ UNCHANGED <<libVars, screen, config, client, wallet, prompt, exit,
                   chan, flow>>

\* CreateScreen::handle_key lines 165-189 and handle_screen_action: Esc at
\* any step is GoHome, and so is Enter at Success
CreateEsc ==
    /\ Running
    /\ screen = "Create"
    /\ screen' = "Home"
    /\ error_message' = None
    /\ UNCHANGED <<libVars, config, client, wallet, create, prompt, exit,
                   tasks, chan, flow>>

\* run_app lines 112-115 and check_session_validity lines 787-804
CheckSessionValidity ==
    /\ Running
    /\ is_authenticated(config)
    /\ tasks.checks < MaxChecks
    /\ tasks' = Spawn([tasks EXCEPT !.checks = @ + 1],
                      Task("session", tasks.checks + 1,
                           client.auth_token.value))
    /\ UNCHANGED <<libVars, screen, config, client, wallet, error_message,
                   create, prompt, exit, chan, flow>>

\* a task of the pool ends and sends its messages
TaskEnds(task, msgs) ==
    /\ Running
    /\ task \in tasks.pool
    /\ tasks' = Ended(tasks, task)
    /\ chan' = chan \o msgs
    /\ UNCHANGED <<libVars, screen, config, client, wallet, error_message,
                   create, prompt, exit, flow>>

\* the token a client sends with its requests, -1 when it has none
TokenOf(c) == IF c.auth_token.kind = "Some" THEN c.auth_token.value ELSE 0 - 1

\* start_email_auth lines 524-533: run_oauth_flow returns the token of the
\* callback, or an error (the magic link is refused, or nothing arrives in
\* the 600 s of auth.rs line 70)
TaskLogin ==
    \E task \in tasks.pool :
        /\ task.kind = "login"
        /\ \/ TaskEnds(task, <<Msg("AuthCompleted", task.of)>>)
           \/ TaskEnds(task, <<Msg("AuthFailed", task.of)>>)

\* check_session_validity lines 793-803 and init_session lines 225-247:
\* get_me succeeds, or fails for whatever reason
TaskSession ==
    \E task \in tasks.pool :
        /\ task.kind = "session"
        /\ \/ TaskEnds(task, <<>>)
           \/ TaskEnds(task, <<Msg("AuthFailed", task.of)>>)

\* app.rs lines 577-598
TaskWallet ==
    \E task \in tasks.pool :
        /\ task.kind = "wallet"
        /\ \/ TaskEnds(task, <<Msg("WalletFunded", task.of)>>)
           \/ TaskEnds(task, <<Msg("WalletFundFailed", "error")>>)
           \/ TaskEnds(task, <<Msg("Error", "Failed to check wallet")>>)

\* fetch_user_agents lines 766-783: the first agent of the list that has a
\* chain address, if the list arrives and holds one; no list arrives for a
\* client without a token
TaskAgents ==
    \E task \in tasks.pool :
        /\ task.kind = "agents"
        /\ \/ TaskEnds(task, <<>>)
           \/ /\ task.of >= 0
              /\ TaskEnds(task,
                          <<Msg("AgentDataRestored", ServerAgent(task.of))>>)

\* start_compilation, create.rs lines 681-711
TaskCompile ==
    \E task \in tasks.pool :
        /\ task.kind = "compile"
        /\ \/ TaskEnds(task, <<Msg("CompileDone", task.id)>>)
           \/ TaskEnds(task, <<Msg("CompileFailed", "errors")>>)

\* start_deployment, create.rs lines 807-910: the task sends one DeployDone
\* or one DeployFailed; the server builds nothing for a client without a
\* token
TaskDeploy ==
    \E task \in tasks.pool :
        /\ task.kind = "deploy"
        /\ \/ /\ task.of >= 0
              /\ TaskEnds(task,
                          <<Msg("DeployDone", Ss58Check(<<task.id>>))>>)
           \/ TaskEnds(task, <<Msg("DeployFailed", "Build failed")>>)

\* mutant: no wallet is made
ensure_wallet_Never(w) == w

\* App::ensure_wallet, when load_or_generate succeeds
ensure_wallet(w) == IF w = None THEN Some(GeneratedWallet) ELSE w

\* app.rs lines 560-599; config.save() may fail, and then run_app returns;
\* ensure_wallet may fail when there is no wallet yet
HandleAuthCompleted ==
    /\ Receives("AuthCompleted")
    /\ chan' = Tail(chan)
    /\ config' = [config EXCEPT !.auth_token = Some(Head(chan).value)]
    /\ \/ /\ exit' = "error"
          /\ UNCHANGED <<client, screen, wallet, error_message, tasks>>
       \/ /\ exit' = exit
          /\ client' = [client EXCEPT !.auth_token = Some(Head(chan).value)]
          /\ screen' = "Home"
          /\ \/ /\ wallet' = ensure_wallet(wallet)
                /\ error_message' = error_message
                /\ tasks' = Spawn(tasks, Task("wallet", Head(chan).value,
                                              Head(chan).value))
             \/ /\ wallet = None
                /\ wallet' = wallet
                /\ error_message' = Some("Failed to create wallet")
                /\ tasks' = tasks
    /\ UNCHANGED <<libVars, create, prompt, flow>>

\* mutant: the configuration keeps its token
HandleAuthFailedConfig_Keep(c, about) == c

\* app.rs line 604: the token is cleared, whatever the message is about
HandleAuthFailedConfig(c, about) == [c EXCEPT !.auth_token = None]

\* app.rs lines 600-607
HandleAuthFailed ==
    /\ Receives("AuthFailed")
    /\ chan' = Tail(chan)
    /\ screen' = "Home"
    /\ error_message' = Some("Auth failed")
    /\ config' = HandleAuthFailedConfig(config, Head(chan).value)
    /\ client' = [client EXCEPT !.auth_token = None]
    /\ UNCHANGED <<libVars, wallet, create, prompt, exit, tasks, flow>>

\* app.rs lines 608-614; fetch_balance sets the balance shown, which is not
\* modelled
HandleWalletFunded ==
    /\ Receives("WalletFunded")
    /\ chan' = Tail(chan)
    /\ tasks' = Spawn(tasks, Task("agents", Head(chan).value,
                                  TokenOf(client)))
    /\ UNCHANGED <<libVars, screen, config, client, wallet, error_message,
                   create, prompt, exit, flow>>

\* app.rs lines 615-619 and 734-736; fetch_balance as above
HandleError ==
    /\ \/ Receives("WalletFundFailed")
       \/ Receives("Error")
    /\ chan' = Tail(chan)
    /\ error_message' = Some(Head(chan).value)
    /\ UNCHANGED <<libVars, screen, config, client, wallet, create, prompt,
                   exit, tasks, flow>>

\* app.rs line 664: the deployment starts when there is a wallet
StartsDeployment(s, c, w) == w # None

\* app.rs lines 661-673
HandleCompileDone ==
    /\ Receives("CompileDone")
    /\ chan' = Tail(chan)
    /\ create' = handle_compile_done(create, Head(chan).value)
    /\ IF StartsDeployment(screen, create, wallet)
       THEN /\ tasks' = Spawn(tasks, Task("deploy", Head(chan).value,
                                          TokenOf(client)))
            /\ error_message' = error_message
       ELSE /\ tasks' = tasks
            /\ error_message' = Some("No wallet available for deployment")
    /\ UNCHANGED <<libVars, screen, config, client, wallet, prompt, exit,
                   flow>>

\* app.rs lines 674-677
HandleCompileFailed ==
    /\ Receives("CompileFailed")
    /\ chan' = Tail(chan)
    /\ error_message' = Some("Compilation failed")
    /\ create' = handle_compile_failed(create, Head(chan).value)
    /\ UNCHANGED <<libVars, screen, config, client, wallet, prompt, exit,
                   tasks, flow>>

\* app.rs lines 723-728; the result of config.save() is dropped
HandleAgentDataRestored ==
    /\ Receives("AgentDataRestored")
    /\ chan' = Tail(chan)
    /\ config' = [config EXCEPT
                     !.agent_name = Some(Head(chan).value.name),
                     !.agent_address = Some(Head(chan).value.chain_address)]
    /\ UNCHANGED <<libVars, screen, client, wallet, error_message, create,
                   prompt, exit, tasks, flow>>

\* PromptScreen::reset
prompt_reset(p) == PromptNew

\* handle_home_key lines 458-466: key 2
HomeKey2 ==
    /\ Running
    /\ screen = "Home"
    /\ error_message' = None
    /\ IF is_authenticated(config) /\ has_agent(config)
       THEN /\ screen' = "Prompt"
            /\ prompt' = prompt_reset(prompt)
       ELSE /\ screen' = screen
            /\ prompt' = prompt
    /\ UNCHANGED <<libVars, config, client, wallet, create, exit, tasks,
                   chan, flow>>

\* handle_home_key lines 467-474: key 3; start_fetch spawns tasks whose
\* messages write the view screen only, which is not modelled
HomeKey3 ==
    /\ Running
    /\ screen = "Home"
    /\ error_message' = None
    /\ screen' = IF is_authenticated(config) /\ has_agent(config)
                 THEN "View" ELSE screen
    /\ UNCHANGED <<libVars, config, client, wallet, create, prompt, exit,
                   tasks, chan, flow>>

\* ViewScreen::handle_key (view.rs lines 43-65): Esc is GoHome
ViewEsc ==
    /\ Running
    /\ screen = "View"
    /\ screen' = "Home"
    /\ error_message' = None
    /\ UNCHANGED <<libVars, config, client, wallet, create, prompt, exit,
                   tasks, chan, flow>>

\* PromptScreen::handle_key lines 137-139, 156-159 and 165-167: Esc
PromptEsc ==
    /\ Running
    /\ screen = "Prompt"
    /\ error_message' = None
    /\ IF prompt.step \in {"Submitting", "Running"}
       THEN /\ prompt' = [prompt EXCEPT
                             !.step = "Complete",
                             !.error = Some("Cancelled by user")]
            /\ screen' = screen
       ELSE /\ prompt' = prompt
            /\ screen' = "Home"
    /\ UNCHANGED <<libVars, config, client, wallet, create, exit, tasks,
                   chan, flow>>

NextApp ==
    \/ HomeKey1
    \/ HomeKey2
    \/ HomeKey3
    \/ HomeKey4
    \/ HomeKeyQ
    \/ EmailInputEnter
    \/ LoginEsc
    \/ CreateEnter
    \/ CreateEsc
    \/ PromptEsc
    \/ ViewEsc
    \/ CheckSessionValidity
    \/ TaskLogin
    \/ TaskSession
    \/ TaskWallet
    \/ TaskAgents
    \/ TaskCompile
    \/ TaskDeploy
    \/ HandleAuthCompleted
    \/ HandleAuthFailed
    \/ HandleWalletFunded
    \/ HandleError
    \/ HandleCompileDone
    \/ HandleCompileFailed
    \/ HandleDeployDone
    \/ HandleDeployFailed
    \/ HandleAgentDataRestored

SpecApp == InitApp /\ [][NextApp]_vars

(***************************************************************************)
(* The prompt screen: its keys, the task of start_prompt_submission and    *)
(* the messages of that task.  One prompt is submitted in a run.           *)
(***************************************************************************)
\* a logged-in user with an agent, on the Home screen
InitPrompt ==
    /\ ExtrinsicIdle
    /\ EventsIdle
    /\ ConcurrentIdle
    /\ TokenIdle
    /\ flow = [FlowStart("prompt", GeneratedWallet) EXCEPT !.pc = "idle"]
    /\ chan = <<>>
    /\ exit = "none"
    /\ error_message = None
    /\ prompt = PromptNew
    /\ create = CreateNew
    /\ tasks = NoTasks
    /\ screen = "Home"
    /\ config = AppConfig(Some(0), Some(Ss58Check(<<0>>)), Some("old name"))
    /\ client = [auth_token |-> Some(0)]
    /\ wallet \in { None } \cup { Some(w) : w \in Wallets }

\* PromptScreen::handle_key lines 109-141 and 164-167: Enter on a prompt
\* typed, and Enter at Complete
PromptEnter ==
    /\ Running
    /\ screen = "Prompt"
    /\ error_message' = None
    /\ IF prompt.step = "EnterPrompt"
       THEN /\ flow.pc = "idle"
            /\ screen' = screen
            /\ IF wallet = None
               THEN /\ prompt' = [prompt EXCEPT
                                     !.error = Some("No wallet available")]
                    /\ flow' = flow
               ELSE IF config.agent_address = None
               THEN /\ prompt' = [prompt EXCEPT
                                     !.error = Some("No agent configured")]
                    /\ flow' = flow
               ELSE /\ prompt' = [prompt EXCEPT !.step = "Submitting"]
                    /\ flow' = FlowStart("prompt", wallet.value)
       ELSE /\ screen' = IF prompt.step = "Complete" THEN "Home" ELSE screen
            /\ prompt' = prompt
            /\ flow' = flow
    /\ UNCHANGED <<libVars, config, client, wallet, create, exit, tasks,
                   chan>>

NextPrompt ==
    \/ HomeKey2
    \/ PromptEnter
    \/ PromptEsc
    \/ FlowBuild
    \/ FlowDecodeCallData
    \/ FlowDecodeGenesisHash
    \/ FlowKeypair
    \/ FlowSign
    \/ FlowSubmit
    \/ FlowParse
    \/ FlowConnect
    \/ FlowStream
    \/ HandlePromptSubmitted
    \/ HandleChainEvent
    \/ HandlePromptStatus
    \/ HandleRunCompleted
    \/ HandlePromptFailed

SpecPrompt == InitPrompt /\ [][NextPrompt]_vars

Init == InitExtrinsic \/ InitEvents

Next == NextExtrinsic \/ NextEvents

Spec == Init /\ [][Next]_vars

(***************************************************************************)
(* The layout the specification states, written down independently of the  *)
(* code above                                                              *)
(***************************************************************************)
Cat(a, b) == ExtendFromSlice(a, b)

Cat3(a, b, c) == Cat(a, Cat(b, c))

\* compact(x) for the nonce and the tip, as the encoder produces it
Compact(x) == CompactBigEncodeTo(x, <<>>)

LittleEndian4(x) == Slice(NumBytes(x, 4))

ExplicitBytes(n) ==
    Cat(Slice(<<0>>), Cat3(Compact(n), Compact(<<>>), Slice(<<0>>)))

ImplicitBytes(spec_v, tx_v, genesis) ==
    Cat(Cat(LittleEndian4(spec_v), LittleEndian4(tx_v)),
        Cat3(genesis, genesis, Slice(<<0>>)))

\* the body of section 4.4 / section 6
Body(pk, sig, n, call) ==
    Cat(Cat3(Slice(<<132, 0>>), pk, Slice(<<1>>)),
        Cat3(sig, ExplicitBytes(n), call))

\* the bytes a "0x" hex text encodes
HexValue(c) == CHOOSE d \in 0 .. 15 : HexDigits[d + 1] = c

DecodedOutput(text) ==
    [i \in 1 .. Len(text.digits) |->
        Run(16 * HexValue(text.digits[i].hi) + HexValue(text.digits[i].lo),
            text.digits[i].n)]

\* the number of bytes of the body before its explicit extension bytes:
\* 0x84, 0x00, public key (32), 0x01, signature (64)
AddressAndSignatureLen == <<99>>

\* the number of implicit extension bytes: 4 + 4 + 32 + 32 + 1
ImplicitLen == <<73>>

\* the explicit extension bytes as they stand in the signing payload and in
\* the extrinsic
ExplicitInPayload ==
    Take(Drop(payload, VecLen(call_data)),
         NumSub(NumSub(VecLen(payload), VecLen(call_data)), ImplicitLen))

ExplicitInExtrinsic ==
    Take(Drop(extrinsic, AddressAndSignatureLen),
         NumSub(NumSub(VecLen(extrinsic), AddressAndSignatureLen),
                VecLen(call_data)))

Built == pc = "returned"

\* the encoding of section 4.1, mode by magnitude; 4 * v is v << 2
ModeEncoding(v) ==
    LET v4 == NumAdd(NumAdd(v, v), NumAdd(v, v))
    IN  IF NumLess(v, Pow6) THEN NumBytes(v4, 1)
        ELSE IF NumLess(v, Pow14) THEN NumBytes(NumAdd(v4, <<1>>), 2)
        ELSE IF NumLess(v, Pow30) THEN NumBytes(NumAdd(v4, <<2>>), 4)
        ELSE LET byteLength == Len(v)
             IN  <<((byteLength - 4) * 4) + 3>> \o NumBytes(v, byteLength)

\* the decoder of the four-mode scheme of section 4.1, on the bytes a value
\* starts with: the value and the number of bytes it took
CompactDecode(bytes) ==
    LET mode == bytes[1] % 4
    IN  IF mode = 0
        THEN [value |-> NumNorm(<<bytes[1] \div 4>>), used |-> 1]
        ELSE IF mode = 1
        THEN [value |-> NumShr2(NumNorm(SubSeq(bytes, 1, 2))), used |-> 2]
        ELSE IF mode = 2
        THEN [value |-> NumShr2(NumNorm(SubSeq(bytes, 1, 4))), used |-> 4]
        ELSE LET byteLength == (bytes[1] \div 4) + 4
             IN  [value |-> NumNorm(SubSeq(bytes, 2, byteLength + 1)),
                  used  |-> byteLength + 1]

\* v with its first k bytes cut off, and decoded from there
After(v, k) == Drop(v, NumFromInt(k))

\* (17 bytes hold the longest encoding: a prefix byte and 16 bytes of a u128)
DecodeAt(v, k) == CompactDecode(Prefix(After(v, k), 17))

\* C1: the signing payload is call ++ explicitBytes ++ implicitBytes, in
\* that order, with explicitBytes = 0x00 compact(nonce) compact(0) 0x00 and
\* implicitBytes = specVersion(4 LE) txVersion(4 LE) genesis genesis 0x00.
C1_SigningPayloadLayout ==
    pc # "entry" =>
        payload = Cat3(call_data, ExplicitBytes(nonce),
                       ImplicitBytes(spec_version, transaction_version,
                                     genesis_hash))

C1_Witness ==
    /\ Built
    /\ call_data = Slice(<<0, 1, 2>>)
    /\ nonce = NumFromInt(16384)
    /\ spec_version # transaction_version
    /\ genesis_hash = Fill(171, <<32>>)
    /\ VecLen(payload) = NumFromInt(3 + 7 + 73)

\* C2: the output encodes compact(len(body)) ++ body, where body = 0x84 0x00
\* publicKey 0x01 signature 0x00 compact(nonce) compact(0) 0x00 callData.
C2_OutputLayout ==
    Built =>
        LET body == Body(public_key, signature, nonce, call_data)
        IN  /\ output.kind = "Ok"
            /\ output.value.prefix = "0x"
            /\ DecodedOutput(output.value) = Cat(Compact(VecLen(body)), body)

\* C3: the signer signs the raw payload when it is at most 256 bytes long
\* and its blake2-256 digest when it is longer.
C3_HashBeforeSign ==
    pc \in {"signed", "returned"} =>
        /\ NumLeq(VecLen(payload), NumFromInt(256)) => message = Raw(payload)
        /\ ~NumLeq(VecLen(payload), NumFromInt(256))
              => message = Blake2_256(payload)

C3_Witness ==
    /\ pc = "signed"
    /\ VecLen(payload) = NumFromInt(256)
    /\ message.kind = "raw"

\* C4: the compact length prefix of the assembled extrinsic decodes to the
\* number of bytes that follow it.
C4_LengthPrefixRoundTrip ==
    Built =>
        LET r == DecodeAt(final_extrinsic, 0)
        IN  r.value = VecLen(After(final_extrinsic, r.used))

\* C4, for the extrinsics whose length fits a u32
C4_LengthPrefixRoundTripU32 ==
    Built /\ Len(VecLen(extrinsic)) <= 4 =>
        LET r == DecodeAt(final_extrinsic, 0)
        IN  r.value = VecLen(After(final_extrinsic, r.used))

\* C2, for the extrinsics whose length fits a u32
C2_OutputLayoutU32 ==
    Built /\ Len(VecLen(extrinsic)) <= 4 =>
        LET body == Body(public_key, signature, nonce, call_data)
        IN  /\ output.kind = "Ok"
            /\ output.value.prefix = "0x"
            /\ DecodedOutput(output.value) = Cat(Compact(VecLen(body)), body)

\* C5: the explicit extension bytes between the signature and the call data
\* of the extrinsic are the explicit extension bytes of the signing payload.
C5_ExplicitBytesReused ==
    Built =>
        /\ ExplicitInExtrinsic = ExplicitInPayload
        /\ extrinsic = Cat3(Take(extrinsic, AddressAndSignatureLen),
                            ExplicitInPayload, call_data)

C5_Witness ==
    /\ Built
    /\ nonce = <<255, 255, 255, 255, 255, 255, 255, 255>>
    /\ VecLen(ExplicitInExtrinsic) = <<12>>
    /\ call_data # <<>>

\* C6: the compact encodings built into the payload and the extrinsic (the
\* u64 nonce, the u128 tip, the u32 length) are the encodings of section
\* 4.1: 1, 2 or 4 bytes of (v << 2) | mode below 2^6, 2^14, 2^30, and a
\* prefix byte ((byteLength - 4) << 2) | 3 with byteLength bytes of v above.
C6_CompactModes ==
    Built =>
        LET n    == ModeEncoding(nonce)
            tip  == ModeEncoding(<<>>)
            len  == ModeEncoding(AsU32(VecLen(extrinsic)))
            at   == AddressAndSignatureLen[1] + 1
        IN  /\ Prefix(After(ExplicitInPayload, 1), Len(n) + 2)
                  = n \o tip \o <<0>>
            /\ VecLen(ExplicitInPayload) = NumFromInt(Len(n) + 3)
            /\ Prefix(After(extrinsic, at), Len(n) + 1) = n \o tip
            /\ After(extrinsic, at + Len(n) + 2) = call_data
            /\ Prefix(final_extrinsic, Len(len)) = len
            /\ After(final_extrinsic, Len(len)) = extrinsic

C6_Witness ==
    /\ Built
    /\ nonce = NumFromInt(1073741824)
    /\ Prefix(After(extrinsic, 100), 5) = <<3, 0, 0, 0, 64>>
    /\ VecLen(extrinsic) = NumFromInt(16384 + 5)
    /\ Prefix(final_extrinsic, 4) = <<22, 0, 1, 0>>

\* C7: decoding what the encoder wrote gives the value back and takes
\* exactly the bytes written: for the nonce (0, 63, 64, 16383, 16384,
\* 2^30 - 1, 2^30, 2^64 - 1), the tip and the u32 length.
C7_CompactRoundTrip ==
    Built =>
        LET at   == AddressAndSignatureLen[1] + 1
            n    == DecodeAt(extrinsic, at)
            tip  == DecodeAt(extrinsic, at + n.used)
            len  == DecodeAt(final_extrinsic, 0)
            pn   == DecodeAt(ExplicitInPayload, 1)
        IN  /\ n.value = nonce
            /\ tip.value = <<>>
            /\ After(extrinsic, at + n.used + tip.used)
                  = Cat(Slice(<<0>>), call_data)
            /\ len.value = AsU32(VecLen(extrinsic))
            /\ After(final_extrinsic, len.used) = extrinsic
            /\ pn.value = nonce
            /\ After(ExplicitInPayload, 1 + pn.used) = Slice(<<0, 0>>)

C7_Witness ==
    /\ Built
    /\ nonce = <<255, 255, 255, 255, 255, 255, 255, 255>>
    /\ DecodeAt(extrinsic, 100) = [value |-> nonce, used |-> 9]
    /\ Len(VecLen(extrinsic)) = 4
    /\ DecodeAt(final_extrinsic, 0).used = 5

(***************************************************************************)
(* The event decoders                                                      *)
(***************************************************************************)
IsAgentRegistered(e) == e.pallet = "Agents" /\ e.variant = "AgentRegistered"

IsAgentCallQueued(e) == e.pallet = "Agents" /\ e.variant = "AgentCallQueued"

\* the blob of an event: the bytes its "bytes" text encodes, none when it has
\* no such text or the text is no hex
Blob(e) ==
    IF e.data.kind = "str" /\ HexDecode(e.data.text).kind = "Ok"
    THEN HexDecode(e.data.text).value
    ELSE <<>>

HasRegistered == \E i \in 1 .. Len(events) : IsAgentRegistered(events[i])

HasQueued == \E i \in 1 .. Len(events) : IsAgentCallQueued(events[i])

FirstRegistered == SelectSeq(events, IsAgentRegistered)[1]

FirstQueued == SelectSeq(events, IsAgentCallQueued)[1]

RECURSIVE LittleEndianValue(_)
\* b[1] + 256 * b[2] + 256^2 * b[3] + ...
LittleEndianValue(b) ==
    IF b = <<>> THEN <<>>
    ELSE LET rest == LittleEndianValue(Tail(b))
         IN  NumAdd(NumFromInt(b[1]), IF rest = <<>> THEN <<>> ELSE <<0>> \o rest)

\* C8 as stated: whenever the list holds an Agents/AgentRegistered event,
\* the result is the SS58 text of the first 32 bytes of the blob of the first
\* such event.
C8_FirstMatchWins ==
    agent_address # Pending /\ HasRegistered =>
        /\ Len(Blob(FirstRegistered)) >= 32
        /\ agent_address = Some(Ss58Check(SubSeq(Blob(FirstRegistered), 1, 32)))

\* C8, amended: when the first Agents/AgentRegistered event of the list has
\* a "bytes" text that is hex of at least 32 bytes, the result is the SS58
\* text of the first 32 bytes of that blob, whatever the later events hold.
C8_FirstDecodableMatchWins ==
    (/\ agent_address # Pending
     /\ HasRegistered
     /\ Len(Blob(FirstRegistered)) >= 32)
        => agent_address
              = Some(Ss58Check(SubSeq(Blob(FirstRegistered), 1, 32)))

C8_Witness ==
    /\ Len(events) = 3
    /\ ~IsAgentRegistered(events[1])
    /\ IsAgentRegistered(events[2]) /\ Blob(events[2]) = Account2
    /\ IsAgentRegistered(events[3]) /\ Blob(events[3]) = Account1
    /\ agent_address = Some(Ss58Check(SubSeq(Account2, 1, 32)))

C10_NonMatchingIgnored ==
    /\ agent_address # Pending =>
          /\ agent_address
                = parse_agent_registered_event(
                      SelectSeq(events, IsAgentRegistered))
          /\ ~HasRegistered => agent_address = None
          /\ agent_address.kind \in {"Some", "None"}
    /\ run_id # Pending =>
          /\ run_id
                = parse_agent_call_queued_event(
                      SelectSeq(events, IsAgentCallQueued))
          /\ ~HasQueued => run_id = None
          /\ run_id.kind \in {"Some", "None"}

C10_Witness ==
    /\ Len(events) = 3
    /\ events[1].pallet = "System" /\ events[1].variant = "AgentRegistered"
    /\ IsAgentRegistered(events[2])
    /\ events[3].variant = "AgentRunCompleted"
    /\ agent_address.kind = "Some"
    /\ run_id = None
(***************************************************************************)
(* The result of build_signed_extrinsic                                    *)
(***************************************************************************)
IsLowerHex(c) == \E d \in 1 .. 16 : HexDigits[d] = c

\* C15: build_signed_extrinsic returns Ok for every call data (the empty one
\* included), nonce, genesis hash and versions; the text is "0x" followed by
\* whole bytes in lowercase hex digits, and the byte after the compact
\* length prefix (the first byte of the body) is 0x84.
C15_OkHexBody ==
    Built =>
        /\ output.kind = "Ok"
        /\ output.value.prefix = "0x"
        /\ \A i \in 1 .. Len(output.value.digits) :
              /\ IsLowerHex(output.value.digits[i].hi)
              /\ IsLowerHex(output.value.digits[i].lo)
        /\ LET bytes == DecodedOutput(output.value)
               len   == CompactDecode(Prefix(bytes, 17))
           IN  Prefix(After(bytes, len.used), 1) = <<132>>

C15_Witness ==
    /\ Built
    /\ call_data = VecNew
    /\ nonce = <<255, 255, 255, 255, 255, 255, 255, 255>>
    /\ output.kind = "Ok"
    /\ output.value.digits[1] = [hi |-> "b", lo |-> "d", n |-> <<1>>]
    /\ output.value.digits[3] = [hi |-> "8", lo |-> "4", n |-> <<1>>]

(***************************************************************************)
(* Two concurrent calls on equal arguments                                 *)
(***************************************************************************)
BothBuilt == Built /\ concurrent.pc = "returned"

\* the bytes of an output before and after the signature field: the length
\* prefix, 0x84, 0x00, the public key and 0x01 come before it (35 bytes of
\* the body), and it is 64 bytes long
BeforeSignature(text) ==
    LET bytes == DecodedOutput(text)
    IN  Take(bytes, NumFromInt(CompactDecode(Prefix(bytes, 17)).used + 35))

AfterSignature(text) ==
    LET bytes == DecodedOutput(text)
    IN  After(bytes, CompactDecode(Prefix(bytes, 17)).used + 35 + 64)

AgreeOutsideSignature ==
    BothBuilt =>
        /\ concurrent.output.kind = output.kind
        /\ BeforeSignature(concurrent.output.value)
              = BeforeSignature(output.value)
        /\ AfterSignature(concurrent.output.value)
              = AfterSignature(output.value)

UpTo(s, c) ==
    IF Find(s, <<c>>) = 0 THEN s ELSE SubSeq(s, 1, Find(s, <<c>>) - 1)

From(s, c) ==
    IF Find(s, <<c>>) = 0 THEN None
    ELSE Some(SubSeq(s, Find(s, <<c>>) + 1, Len(s)))

RequestTarget(line) ==
    LET rest == From(line, " ")
    IN  IF rest = None THEN <<>> ELSE UpTo(rest.value, " ")

QueryString(line) == From(UpTo(RequestTarget(line), "#"), "?")

IsAccessToken(param) == StartsAt(param, AccessTokenEq, 1)

\* the access_token parameters of the query string of the first line
AccessTokens(req) ==
    IF FirstLine(req) = None \/ QueryString(FirstLine(req).value) = None
    THEN <<>>
    ELSE SelectSeq(Split(QueryString(FirstLine(req).value).value, "&"),
                   IsAccessToken)

ValueOf(param) == SubSeq(param, Len(AccessTokenEq) + 1, Len(param))

Parsed == token # Pending

\* C16: try_parse_token_from_query returns the URL-decoded value of the
\* access_token parameter of the query string of the first line of the
\* request, whatever parameters stand before or after it, and None for a
\* request whose first line has no such parameter.
C16_TokenFromQuery ==
    Parsed =>
        IF AccessTokens(request) = <<>> THEN token = None
        ELSE token = UrlDecode(ValueOf(AccessTokens(request)[1]))

\* a request line in origin form with its version: the target starts with a
\* slash and its query string holds no further question mark
OriginForm(req) ==
    /\ FirstLine(req) # None
    /\ LET line   == FirstLine(req).value
           target == RequestTarget(line)
       IN  /\ target # <<>>
           /\ target[1] = "/"
           /\ Contains(line, SpaceHttp)
           /\ QueryString(line) # None => ~Contains(QueryString(line).value, <<"?">>)

\* C16, for the requests in origin form
C16_TokenFromQueryOriginForm ==
    Parsed /\ OriginForm(request) =>
        IF AccessTokens(request) = <<>> THEN token = None
        ELSE token = UrlDecode(ValueOf(AccessTokens(request)[1]))

\* the request of test_parse_token_query, answered as the test expects
C16_Witness ==
    /\ Parsed
    /\ OriginForm(request)
    /\ Len(AccessTokens(request)) = 1
    /\ Len(Split(QueryString(FirstLine(request).value).value, "&")) = 2
    /\ token = Some(<<"t", "e", "s", "t", "4", "5", "6">>)

(***************************************************************************)
(* The deployment task and the prompt task                                 *)
(***************************************************************************)
\* a hex text: "0x" or nothing, and then whole bytes in hex digits
HexBody(text) ==
    IF StartsAt(text, ZeroX, 1) THEN SubSeq(text, 3, Len(text)) ELSE text

WellFormedHex(text) ==
    /\ Len(HexBody(text)) % 2 = 0
    /\ \A i \in 1 .. Len(HexBody(text)) : IsHexChar(HexBody(text)[i])

Malformed(b) ==
    \/ ~WellFormedHex(b.call_data_hex)
    \/ ~WellFormedHex(b.genesis_hash)
    \/ Len(HexBody(b.genesis_hash)) # 2 * 32

BuildReceived == flow.build_result.kind = "Ok"

Ran(name) == \E i \in 1 .. Len(flow.trace) : flow.trace[i] = name

\* the number of messages of these types the task has sent
SentOf(types) ==
    Cardinality({ i \in 1 .. Len(flow.sent) : flow.sent[i] \in types })

FailureType == IF flow.kind = "deploy" THEN "DeployFailed" ELSE "PromptFailed"

SuccessType == IF flow.kind = "deploy" THEN "DeployDone" ELSE "PromptSubmitted"

FailsBeforeSigning ==
    /\ ~Ran("keypair")
    /\ ~Ran("sign")
    /\ ~Ran("submit")
    /\ flow.signed_hex = Pending
    /\ flow.submit_result = Pending
    /\ flow.pc \in {"decode_call_data", "decode_genesis_hash", "done"}
    /\ flow.sent \in { <<>>, <<FailureType>> }
    /\ flow.pc = "done" => flow.sent = <<FailureType>>

\* C11: when the call data hex or the genesis hash hex of the build response
\* is malformed (a character that is no hex digit, an odd number of digits)
\* or the genesis hash is not 32 bytes long, the deployment task and the
\* prompt task fail at once: one DeployFailed / PromptFailed is sent, no
\* extrinsic is built or signed and submit_extrinsic is not called.
C11_MalformedHexFails ==
    BuildReceived /\ Malformed(flow.build_result.value) => FailsBeforeSigning

\* what the code rejects: the text left when every leading "0x" is removed
\* is no hex, or the genesis hash left so is not 32 bytes long
Rejected(b) ==
    \/ ~WellFormedHex(TrimStartMatches(b.call_data_hex, ZeroX))
    \/ ~WellFormedHex(TrimStartMatches(b.genesis_hash, ZeroX))
    \/ Len(TrimStartMatches(b.genesis_hash, ZeroX)) # 2 * 32

\* C11, for the texts that stay malformed when every leading "0x" is removed
C11_RejectedHexFails ==
    BuildReceived /\ Rejected(flow.build_result.value) => FailsBeforeSigning

Submitted == flow.submit_result.kind = "Ok"

IsExpected(e) ==
    IF flow.kind = "deploy" THEN IsAgentRegistered(e) ELSE IsAgentCallQueued(e)

NoExpectedEvent ==
    \A i \in 1 .. Len(flow.submit_result.value) :
        ~IsExpected(flow.submit_result.value[i])

\* every message of the task has been received
Delivered == flow.pc = "done" /\ chan = <<>>

\* C12: when the submission succeeds and the events returned hold no
\* AgentRegistered (deployment) or AgentCallQueued (prompt) event of the
\* Agents pallet, the task sends DeployFailed / PromptFailed and never
\* DeployDone / PromptSubmitted; once the application has received it, an
\* error is set for the user to see and no agent address or run id is
\* stored.
C12_MissingEventIsFailure ==
    Submitted /\ NoExpectedEvent /\ Ran("parse") =>
        /\ flow.pc = "done"
        /\ flow.sent[Len(flow.sent)] = FailureType
        /\ SentOf({FailureType}) = 1
        /\ SentOf({SuccessType}) = 0
        /\ Delivered /\ flow.kind = "deploy" =>
              /\ error_message # None
              /\ create.error # None
              /\ create.agent_address = None
              /\ create.step # "Success"
              /\ config.agent_name # Some(create.agent_name)
              /\ config.agent_address.kind = "Some"
                    => config.agent_address = Some(Ss58Check(<<0>>))
        /\ Delivered /\ flow.kind = "prompt" =>
              /\ prompt.error # None
              /\ prompt.run_id = None
              /\ prompt.step = "Complete"

C12_Witness ==
    /\ Submitted
    /\ flow.submit_result.value # <<>>
    /\ NoExpectedEvent
    /\ Delivered
    /\ flow.kind = "deploy"
    /\ config.agent_address = None
    /\ error_message # None

\* the steps of a task up to the submission, in the order of the code
StepOrder ==
    <<"build", "decode_call_data", "decode_genesis_hash", "keypair", "sign",
      "submit">>

IsStep(name) == \E i \in 1 .. Len(StepOrder) : StepOrder[i] = name

StepsRun == SelectSeq(flow.trace, IsStep)

\* the step failed: its result is an error
FailedAt(name) ==
    \/ name = "build" /\ flow.build_result.kind = "Err"
    \/ name = "decode_call_data" /\ flow.call_data.kind = "Err"
    \/ name = "decode_genesis_hash" /\ flow.genesis_hash.kind = "Err"
    \/ name = "keypair" /\ flow.keypair.kind = "Err"
    \/ name = "sign" /\ flow.signed_hex.kind = "Err"
    \/ name = "submit" /\ flow.submit_result.kind = "Err"

\* C13: nothing is retried.  In a deployment task and in a prompt task the
\* steps build, decode, keypair, sign and submit run at most once each and in
\* this order; a step that fails is the last step, and the one message sent
\* after it is the failure; a deployment task sends at most one of
\* DeployDone and DeployFailed, and exactly one when it has ended.
C13_NoRetry ==
    /\ StepsRun = SubSeq(StepOrder, 1, Len(StepsRun))
    /\ \A i \in 1 .. Len(StepOrder) :
          FailedAt(StepOrder[i]) =>
              /\ flow.pc = "done"
              /\ Len(StepsRun) = i
              /\ flow.trace[Len(flow.trace)] = StepOrder[i]
              /\ flow.sent[Len(flow.sent)] = FailureType
              /\ SentOf({FailureType, SuccessType}) = 1
    /\ flow.kind = "deploy" =>
          /\ SentOf({"DeployDone", "DeployFailed"}) <= 1
          /\ Len(flow.sent) = SentOf({"DeployDone", "DeployFailed"})
          /\ flow.pc = "done" => SentOf({"DeployDone", "DeployFailed"}) = 1

C13_Witness ==
    /\ flow.kind = "deploy"
    /\ flow.pc = "done"
    /\ FailedAt("keypair")
    /\ StepsRun = SubSeq(StepOrder, 1, 4)
    /\ flow.sent = <<"DeployFailed">>


(***************************************************************************)
(* The application: logout, stale messages, the abandoned wizard           *)
(***************************************************************************)

\* what the logout leaves behind, and what it leaves alone
LoggedOut ==
    /\ config'.auth_token = None
    /\ config'.agent_address = None
    /\ config'.agent_name = None
    /\ client'.auth_token = None
    /\ config'.server_url = config.server_url
    /\ config'.custom_agent_dir = config.custom_agent_dir
    /\ wallet' = wallet
    /\ screen' = screen

\* C17, as stated: when key 4 has been handled on the Home screen of a
\* logged-in application, the token, the agent address and the agent name of
\* the configuration are None and the client holds no token; the server URL,
\* the custom agent directory, the wallet and the screen are as before.
C17_LogoutClears == [][HomeKey4 => LoggedOut]_vars

\* C17, amended: the same when config.save() has succeeded; when it fails
\* the configuration is cleared in memory, the client keeps its token and
\* run_app ends with the error.
C17_LogoutClearsWhenSaved ==
    [][HomeKey4 =>
          /\ exit' = "none" => LoggedOut
          /\ exit' # "none" =>
                /\ exit' = "error"
                /\ config' = logout(config)
                /\ client' = client
                /\ wallet' = wallet
                /\ screen' = screen]_vars

\* a logout after a deployment has succeeded: nothing else sets the agent
\* address of the configuration back to None
C17_Witness ==
    /\ Running
    /\ screen = "Home"
    /\ create.step = "Success"
    /\ create.agent_address # None
    /\ config.auth_token = None
    /\ config.agent_address = None
    /\ config.agent_name = None
    /\ client.auth_token = None
    /\ wallet # None


\* C18: agent data belongs to the logged-in user.  In every reachable state
\* in which the configuration has no token it has no agent address and no
\* agent name either, however logout and AuthFailed interleave with the
\* DeployDone and AgentDataRestored messages of tasks started while logged
\* in.
C18_AgentBelongsToUser ==
    config.auth_token = None =>
        config.agent_address = None /\ config.agent_name = None

\* C18, for the messages in flight alone: a DeployDone or AgentDataRestored
\* message handled after the user has logged out stores no agent
C18_LateAgentData ==
    [][(HandleDeployDone \/ HandleAgentDataRestored)
          /\ config.auth_token = None
          => config'.agent_address = None /\ config'.agent_name = None]_vars


\* the AuthFailed message handled is about an older token than the one the
\* configuration holds: it comes from a login attempt started before the
\* one that obtained this token, or from a session check of a former token
StaleAuthFailed ==
    /\ HandleAuthFailed
    /\ config.auth_token.kind = "Some"
    /\ Head(chan).value < config.auth_token.value

\* C19: a token installed by a successful login is cleared only when that
\* token is invalid.  An AuthFailed message of an earlier login attempt that
\* was left with Esc, or of a session check issued for a former token, does
\* not clear the token a later AuthCompleted has installed.
C19_StaleAuthFailedIgnored ==
    [][StaleAuthFailed => config'.auth_token = config.auth_token]_vars


\* the wizard is not waiting for a compilation: the user has left it with
\* Esc, or it has been reset since
WizardAbandoned ==
    \/ screen # "Create"
    \/ create.step = "SelectAgentSource"

DeploymentStarted ==
    \E task \in tasks'.pool \ tasks.pool : task.kind = "deploy"

\* C20: leaving the create wizard cancels it.  After Esc in Compiling or
\* Deploying (back on Home), or after a reset of the wizard, a CompileDone
\* message that arrives late starts no deployment: no extrinsic is built,
\* signed or submitted for the wizard run that was left.
C20_LateCompileDoneIgnored ==
    [][HandleCompileDone /\ WizardAbandoned => ~DeploymentStarted]_vars


(***************************************************************************)
(* The event decoders: events that match and cannot be decoded             *)
(***************************************************************************)
\* the event has a "bytes" text that is hex
HasHexBlob(e) == e.data.kind = "str" /\ HexDecode(e.data.text).kind = "Ok"

DecodableRegistered(e) ==
    IsAgentRegistered(e) /\ HasHexBlob(e) /\ Len(Blob(e)) >= 32

DecodableQueued(e) ==
    IsAgentCallQueued(e) /\ HasHexBlob(e) /\ Len(Blob(e)) >= 8

\* the value of the first event of the list that matches and can be decoded
ExpectedAddress ==
    LET decodable == SelectSeq(events, DecodableRegistered)
    IN  IF decodable = <<>> THEN None
        ELSE Some(Ss58Check(SubSeq(Blob(decodable[1]), 1, 32)))

ExpectedRunId ==
    LET decodable == SelectSeq(events, DecodableQueued)
    IN  IF decodable = <<>> THEN None
        ELSE Some(LittleEndianValue(SubSeq(Blob(decodable[1]), 1, 8)))

\* C24: a matching event that cannot be decoded is skipped.  When an
\* Agents/AgentRegistered (AgentCallQueued) event has no "bytes" text, a text
\* that is no hex, or a blob under 32 (8) bytes, the decoder goes on and
\* returns the value of the first later matching event that can be decoded,
\* and absent when there is none.
C24_UndecodableSkipped ==
    /\ agent_address # Pending => agent_address = ExpectedAddress
    /\ run_id # Pending => run_id = ExpectedRunId

\* a matching event with a "bytes" text that is no hex
NonHexRegistered(e) ==
    IsAgentRegistered(e) /\ e.data.kind = "str" /\ ~HasHexBlob(e)

NonHexQueued(e) ==
    IsAgentCallQueued(e) /\ e.data.kind = "str" /\ ~HasHexBlob(e)

\* C24, for the lists without such an event: events without a "bytes" text
\* and events with a short blob are skipped
C24_MissingOrShortSkipped ==
    /\ agent_address # Pending /\ SelectSeq(events, NonHexRegistered) = <<>>
          => agent_address = ExpectedAddress
    /\ run_id # Pending /\ SelectSeq(events, NonHexQueued) = <<>>
          => run_id = ExpectedRunId


(***************************************************************************)
(* The prompt task: how it ends                                            *)
(***************************************************************************)
\* C22: every submitted prompt terminates.  The task started by Enter on a
\* prompt sends RunCompleted or PromptFailed before it ends, so that, when
\* it has ended and its messages have been received, the prompt screen is at
\* step Complete with no key pressed; also when the event stream ends
\* without a Completed or Failed event.
C22_PromptTerminates ==
    flow.kind = "prompt" /\ Delivered =>
        /\ SentOf({"RunCompleted", "PromptFailed"}) >= 1
        /\ prompt.step = "Complete"

\* C22, for the tasks that do send one of the two messages
C22_CompleteWhenReported ==
    (/\ flow.kind = "prompt"
     /\ Delivered
     /\ SentOf({"RunCompleted", "PromptFailed"}) >= 1)
        => prompt.step = "Complete"


(***************************************************************************)
(* The prompt screen: step Complete                                        *)
(***************************************************************************)
\* a message of the prompt task is received
PromptMessageHandled ==
    \/ HandlePromptSubmitted
    \/ HandleChainEvent
    \/ HandleRunCompleted
    \/ HandlePromptFailed

\* the prompt screen has been reset since the prompt was submitted: it waits
\* for a new prompt while the task of the former one exists
NewSession == prompt.step = "EnterPrompt" /\ flow.pc # "idle"

\* C23: Complete is a stable step of the prompt screen.  Once the step is
\* Complete (run completed, run failed, or Esc during Submitting or Running)
\* it stays Complete until the screen is reset; the messages of an earlier
\* or cancelled run (PromptSubmitted, ChainEvent, RunCompleted,
\* PromptFailed) do not move it back to Running and do not change a prompt
\* session started after a reset.
C23_CompleteStable ==
    [][/\ prompt.step = "Complete" /\ prompt'.step # "Complete"
            => HomeKey2 /\ prompt' = PromptNew
       /\ PromptMessageHandled /\ NewSession => prompt' = prompt]_vars

\* C23, for the keys alone: no key moves the screen from Complete to
\* another step but key 2 on Home, which resets it
C23_CompleteStableUnderKeys ==
    [][(HomeKey2 \/ PromptEnter \/ PromptEsc)
          /\ prompt.step = "Complete" /\ prompt'.step # "Complete"
          => HomeKey2 /\ prompt' = PromptNew]_vars


(***************************************************************************)
(* The create wizard: the waiting steps                                    *)
(***************************************************************************)
\* a message of one of the types is in the channel
Queued(types) == \E i \in 1..Len(chan) : chan[i].type \in types

\* a task of the kind is running
TaskRuns(kind) == \E task \in tasks.pool : task.kind = kind

\* C21: the create wizard never rests in a waiting step with nothing
\* pending.  In every reachable state where the step is Compiling or
\* Deploying (RegisteringMoltbook is not part of this model), a task for
\* that step is running or its result message is in the channel; this
\* includes the states after DeployFailed and after CompileDone without a
\* wallet.
C21_WaitingStepHasPending ==
    Running =>
        /\ create.step = "Compiling" =>
               TaskRuns("compile") \/ Queued({"CompileDone", "CompileFailed"})
        /\ create.step = "Deploying" =>
               TaskRuns("deploy") \/ Queued({"DeployDone", "DeployFailed"})

\* C21, for the step Compiling entered with Enter: as long as no compile
\* message has been handled since, the compile task or its message is there
C21_CompilingAfterEnter ==
    [][CreateEnter =>
          (create'.step = "Compiling" /\ TaskRuns("compile")')]_vars


(***************************************************************************)
(* The session of the client and of the configuration                      *)
(***************************************************************************)
\* C25: the API client and the configuration agree on the session.  In
\* every state reached after an event has been handled and the main loop
\* continues, client.auth_token is Some exactly when config.auth_token is
\* Some, and then both hold the same token.
C25_ClientAgreesWithConfig ==
    Running =>
        /\ client.auth_token.kind = config.auth_token.kind
        /\ client.auth_token = config.auth_token

\* AuthCompleted of the first login has been handled and the loop runs: the
\* configuration and the client hold the token of that login
C25_Witness ==
    /\ Running
    /\ tasks.logins > 0
    /\ config.auth_token = Some(1)
    /\ client.auth_token = Some(1)


(***************************************************************************)
(* The screens that act for a user                                         *)
(***************************************************************************)
\* C26: screens that act for a user are reachable only while authenticated.
\* In every reachable state the screen is Create, Prompt or View only if
\* config.auth_token is Some, and the Prompt and View screens are entered
\* only when an agent address is configured.
C26_UserScreensNeedSession ==
    /\ [](screen \in {"Create", "Prompt", "View"}
             => config.auth_token # None)
    /\ [][screen # screen' /\ screen' \in {"Prompt", "View"}
             => config.agent_address # None
                /\ config'.agent_address # None]_vars

\* the Prompt or View screen of a user who logged in during the run and
\* whose agent the server restored
C26_Witness ==
    /\ screen \in {"Prompt", "View"}
    /\ tasks.logins > 0
    /\ config.auth_token = Some(1)
    /\ config.agent_address = Some(ServerAgent(1).chain_address)


(***************************************************************************)
(* The wallet                                                              *)
(***************************************************************************)
\* the wallet failure, as error_message reports it
WalletFailureReported == error_message = Some("Failed to create wallet")

\* C27: the wallet is created only after authentication.  For an app
\* started without a persisted auth token, wallet is None in every state
\* until an AuthCompleted message has been handled, and once AuthCompleted
\* has been handled either wallet is Some or error_message reports the
\* wallet failure.
C27_WalletOnlyAfterAuth ==
    [][/\ wallet' # wallet => HandleAuthCompleted /\ wallet = None
       /\ HandleAuthCompleted =>
              wallet' # None \/ WalletFailureReported']_vars

\* C27, amended: the wallet changes only when AuthCompleted is handled and
\* there was none; when AuthCompleted has been handled and config.save()
\* succeeded, either wallet is Some or error_message reports the wallet
\* failure; when config.save() fails the loop ends with the wallet as it
\* was and nothing reported.
C27_WalletOnlyAfterAuthWhenSaved ==
    [][/\ wallet' # wallet => HandleAuthCompleted /\ wallet = None
       /\ HandleAuthCompleted =>
              IF Running'
              THEN wallet' # None \/ WalletFailureReported'
              ELSE wallet' = wallet /\ error_message' = error_message]_vars

\* a user without a session has logged in; the wallet is there and its
\* funding is being checked
C27_Witness ==
    /\ Running
    /\ config.auth_token = Some(1)
    /\ wallet = Some(GeneratedWallet)
    /\ TaskRuns("wallet")
    /\ tasks.checks = 0

====
